---- MODULE Spec2Model ----
(***************************************************************************)
(* State-machine model of the reactive store (scripts/stores/store.js),   *)
(* its saved-colors specialization (scripts/stores/color-cart.js) and the *)
(* component factory (scripts/lib/component.js).                          *)
(*                                                                         *)
(* JavaScript runs every callback to completion, so each public call,     *)
(* timer callback and message callback is one atomic action.  Every       *)
(* action records what it did in three observation variables:             *)
(*   op  - the call that was made (name, tab / instance, arguments),      *)
(*   ret - what the call returned or threw,                               *)
(*   log - the ordered effects of that one call.                          *)
(***************************************************************************)
EXTENDS Integers, Sequences, FiniteSets, TLC

VARIABLES
    state,        \* tab -> Store.state  ({colors, maxColors})
    listeners,    \* tab -> Store.listeners, a JS Set: insertion-ordered, no duplicates
    closures,     \* tab -> handlers for which subscribe() has returned an unsubscribe closure
    timer,        \* tab -> TRUE while the debounce timer of persist is pending
    inbox,        \* tab -> BroadcastChannel messages posted to the tab and not yet delivered
    storage,      \* localStorage entry under the store key (shared by the tabs)
    io,           \* localStorage.setItem and channel.postMessage calls that have returned, over all tabs
    now,          \* the last value Date.now() returned (the tabs share the system clock)
    calls,        \* number of Store.update calls made so far
    registry,            \* component name -> definition registered under it
    componentInstances,  \* element -> its live instance (0: none)
    inst,                \* the closures of the instances created so far: el, definition, state, props, cleanupFns
    dataset,             \* element -> dataset.cid
    innerHTML,           \* element -> its markup
    handlers,            \* events.handlers: key -> set of delegated handlers
    bound,               \* events.bound
    timeouts,            \* debounced function -> the timeout setTimeout has pending for it
    op, ret, log         \* observation of the last call

compVars == <<registry, componentInstances, inst, dataset, innerHTML, handlers, bound>>
vars == <<state, listeners, closures, timer, inbox, storage, io, now, calls,
          registry, componentInstances, inst, dataset, innerHTML, handlers, bound, timeouts, op, ret, log>>

(***************************************************************************)
(* Bounds                                                                  *)
(***************************************************************************)
\* defaultState.maxColors; the source uses 20, the model scales it down
MaxColors == 2
\* longest collection the model lets an out-of-range reorder grow
MaxLen == MaxColors + 1
\* last clock value
MaxTime == 1
\* Store.update calls in one run
MaxCalls == 3
\* undelivered messages per tab
MaxQueue == 1
\* component instances created in one run
MaxInst == 2
\* functions registered through onDestroy on one instance
MaxFns == 1
\* longest string passed to esc
MaxStr == 3
\* notification timeouts of one instance that have not run yet
MaxTimers == 1
\* the debounce window of persist in clock ticks; the source uses 100 ms
Window == 2
\* last clock value of the timed specification
MaxClock == MaxTime + 2 * Window

Tabs == {"A", "B"}
\* a store listener: the block that subscribed it and, for a component, its instance
Handler(owner, i) == [owner |-> owner, inst |-> i]
\* the listener of blocks/cart-badge/cart-badge.js
Badge == Handler("cart-badge", 0)
\* the listener a color-picker instance subscribes in mounted: () => c.render()
PickerHandler(i) == Handler("color-picker", i)
NoHandler == Handler("-", 0)
Handlers == {Badge, PickerHandler(1)}

Red == [hex |-> "#FF0000", name |-> "Red"]
Green == [hex |-> "#00FF00", name |-> "Green"]
Blue == [hex |-> "#0000FF", name |-> "Blue"]
\* the colors passed to addColor
Colors == {Red, Green, Blue}

Min(a, b) == IF a < b THEN a ELSE b
Max(a, b) == IF a > b THEN a ELSE b

(***************************************************************************)
(* JavaScript values                                                       *)
(***************************************************************************)
\* the value of a missing array element / of a destructured empty array
Undefined == [kind |-> "undefined"]
\* what JSON.stringify writes for an undefined array element
Null == [kind |-> "null"]
IsColor(c) == c.kind = "color"

\* localStorage.getItem(key) when nothing was stored
NoEntry == [kind |-> "none"]

\* the object literal addColor appends: {...color, id: Date.now(), savedAt: new Date().toISOString()}
Entry(color, t) == [kind |-> "color", hex |-> color.hex, name |-> color.name, id |-> t, savedAt |-> t]

\* super('behr-saved-colors', { colors: [], maxColors: 20 })
DefaultState == [colors |-> <<>>, maxColors |-> MaxColors]

\* { ...a, ...b }
Merge(a, b) == [k \in DOMAIN a \cup DOMAIN b |-> IF k \in DOMAIN b THEN b[k] ELSE a[k]]

\* a stored string JSON.parse rejects
Malformed == [kind |-> "malformed"]
\* the stored text of an object with the top-level keys of val
Json(val) == [kind |-> "json", val |-> val]

\* JSON.parse(JSON.stringify(s)): an undefined array element is written as null
StringifyEntry(c) == IF c.kind = "undefined" THEN Null ELSE c
JSONStringify(s) ==
    Json([k \in DOMAIN s |-> IF k = "colors" THEN [i \in DOMAIN s[k] |-> StringifyEntry(s[k][i])] ELSE s[k]])

\* Store.hydrate: stored ? {...defaultState, ...JSON.parse(stored)} : defaultState,
\* and defaultState when getItem or JSON.parse throws
hydrate(defaultState, stored) ==
    IF stored.kind = "json" THEN Merge(defaultState, stored.val) ELSE defaultState

(***************************************************************************)
(* Array.prototype.splice                                                  *)
(***************************************************************************)
\* the clamping of splice's start argument
ActualStart(start, len) == IF start < 0 THEN Max(len + start, 0) ELSE Min(start, len)

\* colors.splice(start, 1): <<array after the call, removed elements>>
SpliceDelete(s, start) ==
    LET len == Len(s)
        as == ActualStart(start, len)
        dc == Min(1, len - as)
    IN  IF dc = 0 THEN <<s, <<>>>>
        ELSE <<SubSeq(s, 1, as) \o SubSeq(s, as + 2, len), <<s[as + 1]>>>>

\* colors.splice(start, 0, item): the array after the call
SpliceInsert(s, start, item) ==
    LET len == Len(s)
        as == ActualStart(start, len)
    IN  SubSeq(s, 1, as) \o <<item>> \o SubSeq(s, as + 1, len)

\* mutant: the insertion index is corrected for the removed element
ReorderColorsShifted(colors, fromIndex, toIndex) ==
    LET d == SpliceDelete(colors, fromIndex)
        moved == IF d[2] = <<>> THEN Undefined ELSE d[2][1]
    IN  SpliceInsert(d[1], IF fromIndex < toIndex THEN toIndex - 1 ELSE toIndex, moved)

\* the updater of ColorCartStore.reorder applied to the colors array
ReorderColors(colors, fromIndex, toIndex) ==
    LET d == SpliceDelete(colors, fromIndex)
        moved == IF d[2] = <<>> THEN Undefined ELSE d[2][1]
    IN  SpliceInsert(d[1], toIndex, moved)

(***************************************************************************)
(* ColorCartStore getters and predicates                                  *)
(***************************************************************************)
count(s) == Len(s.colors)
\* mutant: the capacity test is off by one
isFullOffByOne(s) == count(s) > s.maxColors
isFull(s) == count(s) >= s.maxColors

\* colors.some((c) => c.hex === hex): "true", "false", or "TypeError" when the
\* scan reaches an undefined / null element before a match
RECURSIVE SomeHex(_, _, _)
SomeHex(colors, hex, i) ==
    IF i > Len(colors) THEN "false"
    ELSE IF ~IsColor(colors[i]) THEN "TypeError"
    ELSE IF colors[i].hex = hex THEN "true"
    ELSE SomeHex(colors, hex, i + 1)
\* mutant: the scan skips the first entry
hasColorSkipsFirst(s, hex) == SomeHex(s.colors, hex, 2)
hasColor(s, hex) == SomeHex(s.colors, hex, 1)

\* colors.filter((c) => c.id !== id) throws when an element is undefined / null
FilterThrows(colors) == \E i \in DOMAIN colors : ~IsColor(colors[i])
FilterId(colors, id) == SelectSeq(colors, LAMBDA c : c.id # id)

(***************************************************************************)
(* Store                                                                   *)
(***************************************************************************)
Ev(e, h, s) == [ev |-> e, h |-> h, arg |-> s]

\* Store.notify: this.listeners.forEach((fn) => fn(this.state))
notify(t, s) == [i \in DOMAIN listeners[t] |-> Ev("notify", listeners[t][i], s)]

InSeq(x, s) == \E i \in DOMAIN s : s[i] = x
\* Set.prototype.add / delete on the insertion-ordered listener set
SetAdd(s, x) == IF InSeq(x, s) THEN s ELSE Append(s, x)
SetDelete(s, x) == SelectSeq(s, LAMBDA y : y # x)

\* the observed store call: its name, the tab it was made in, and the hex passed to addColor
Call(name, t, arg) == [name |-> name, tab |-> t, inst |-> 0, el |-> "-", arg |-> arg]
\* the observed result: what was returned or thrown
Ret(v) == [v |-> v, inst |-> 0]

\* the debounced functions: persist of each tab's store, and a function "fn" wrapped on its own
Debounced == Tabs \cup {"fn"}
\* no timeout pending (after clearTimeout, or after the callback ran)
NoTimeout == [due |-> -1, args |-> "-"]

\* every tab has loaded over empty storage: new ColorCartStore()
StoreInit ==
    /\ state = [t \in Tabs |-> hydrate(DefaultState, NoEntry)]
    /\ timer = [t \in Tabs |-> FALSE]
    /\ inbox = [t \in Tabs |-> <<>>]
    /\ storage = NoEntry
    /\ io = [writes |-> 0, posts |-> 0]
    /\ now = 0
    /\ calls = 0
    /\ timeouts = [d \in Debounced |-> NoTimeout]
    /\ op = Call("construct", "A", "-")
    /\ ret = Ret("void")
    /\ log = <<>>

\* mutant: the listeners are invoked before the state is replaced
updateNotifiesFirst(t, s) ==
    /\ state' = [state EXCEPT ![t] = s]
    /\ log' = notify(t, state[t]) \o <<Ev("set", NoHandler, s), Ev("schedule", NoHandler, s)>>
    /\ timer' = [timer EXCEPT ![t] = TRUE]
    /\ calls < MaxCalls
    /\ calls' = calls + 1
    /\ UNCHANGED <<listeners, closures, inbox, storage, io>>

\* Store.update(updater) once the next state s has been computed:
\* replace the state, notify, call the debounced persist (which re-arms the timer)
update(t, s) ==
    /\ state' = [state EXCEPT ![t] = s]
    /\ log' = <<Ev("set", NoHandler, s)>> \o notify(t, s) \o <<Ev("schedule", NoHandler, s)>>
    /\ timer' = [timer EXCEPT ![t] = TRUE]
    /\ calls < MaxCalls
    /\ calls' = calls + 1
    /\ UNCHANGED <<listeners, closures, inbox, storage, io>>

\* a call that returns or throws before Store.update is entered
NoEffect ==
    /\ log' = <<>>
    /\ UNCHANGED <<state, listeners, closures, timer, inbox, storage, io, calls>>

\* mutant: the duplicate test comes before the capacity test
AddColorDuplicateFirst(t, color, n) ==
    /\ op' = Call("addColor", t, color.hex)
    /\ IF hasColor(state[t], color.hex) = "TypeError" THEN ret' = Ret("TypeError") /\ NoEffect /\ now' = now
       ELSE IF hasColor(state[t], color.hex) = "true" THEN ret' = Ret("duplicate") /\ NoEffect /\ now' = now
       ELSE IF isFull(state[t]) THEN ret' = Ret("full") /\ NoEffect /\ now' = now
       ELSE /\ ret' = Ret("success")
            /\ now' = n
            /\ update(t, [state[t] EXCEPT !.colors = Append(@, Entry(color, n))])

\* addColor(color); n is the value Date.now() returns during the call
AddColor(t, color, n) ==
    /\ op' = Call("addColor", t, color.hex)
    /\ IF isFull(state[t]) THEN ret' = Ret("full") /\ NoEffect /\ now' = now
       ELSE IF hasColor(state[t], color.hex) = "TypeError" THEN ret' = Ret("TypeError") /\ NoEffect /\ now' = now
       ELSE IF hasColor(state[t], color.hex) = "true" THEN ret' = Ret("duplicate") /\ NoEffect /\ now' = now
       ELSE /\ ret' = Ret("success")
            /\ now' = n
            /\ update(t, [state[t] EXCEPT !.colors = Append(@, Entry(color, n))])

RemoveColor(t, id) ==
    /\ op' = Call("removeColor", t, "-")
    /\ now' = now
    /\ IF FilterThrows(state[t].colors) THEN ret' = Ret("TypeError") /\ NoEffect
       ELSE /\ ret' = Ret("void")
            /\ update(t, [state[t] EXCEPT !.colors = FilterId(@, id)])

Clear(t) ==
    /\ op' = Call("clear", t, "-")
    /\ ret' = Ret("void")
    /\ now' = now
    /\ update(t, [state[t] EXCEPT !.colors = <<>>])

Reorder(t, fromIndex, toIndex) ==
    /\ Len(ReorderColors(state[t].colors, fromIndex, toIndex)) <= MaxLen
    /\ op' = Call("reorder", t, "-")
    /\ ret' = Ret("void")
    /\ now' = now
    /\ update(t, [state[t] EXCEPT !.colors = ReorderColors(@, fromIndex, toIndex)])

\* mutant: subscribe registers the handler without invoking it
SubscribeWithoutCall(t, h) ==
    /\ op' = Call("subscribe", t, "-")
    /\ ret' = Ret("unsubscribe")
    /\ listeners' = [listeners EXCEPT ![t] = SetAdd(@, h)]
    /\ closures' = [closures EXCEPT ![t] = @ \cup {h}]
    /\ log' = <<>>
    /\ UNCHANGED <<state, timer, inbox, storage, io, now, calls>>

\* Store.subscribe(fn)
Subscribe(t, h) ==
    /\ op' = Call("subscribe", t, "-")
    /\ ret' = Ret("unsubscribe")
    /\ listeners' = [listeners EXCEPT ![t] = SetAdd(@, h)]
    /\ closures' = [closures EXCEPT ![t] = @ \cup {h}]
    /\ log' = <<Ev("notify", h, state[t])>>
    /\ UNCHANGED <<state, timer, inbox, storage, io, now, calls>>

\* the closure subscribe returned: () => this.listeners.delete(fn)
Unsubscribe(t, h) ==
    /\ h \in closures[t]
    /\ op' = Call("unsubscribe", t, "-")
    /\ ret' = Ret("void")
    /\ listeners' = [listeners EXCEPT ![t] = SetDelete(@, h)]
    /\ log' = <<Ev("delete", h, state[t])>>
    /\ UNCHANGED <<state, closures, timer, inbox, storage, io, now, calls>>

\* how the body of persist ends: both calls succeed, JSON.stringify / setItem throws
\* (quota, storage disabled), or postMessage throws after the write
Outcomes == {"ok", "setItem", "postMessage"}

\* mutant: persist has no try / catch
PersistFireUncaught(t, outcome) ==
    /\ timer[t]
    /\ \A u \in Tabs \ {t} : Len(inbox[u]) < MaxQueue
    /\ op' = Call("persist", t, "-")
    /\ ret' = Ret(IF outcome = "ok" THEN "void" ELSE "uncaught")
    /\ timer' = [timer EXCEPT ![t] = FALSE]
    /\ storage' = IF outcome = "setItem" THEN storage ELSE JSONStringify(state[t])
    /\ io' = [writes |-> io.writes + (IF outcome = "setItem" THEN 0 ELSE 1),
              posts |-> io.posts + (IF outcome = "ok" THEN 1 ELSE 0)]
    /\ inbox' = IF outcome = "ok"
                THEN [u \in Tabs |-> IF u = t THEN inbox[u] ELSE Append(inbox[u], state[t])]
                ELSE inbox
    /\ log' = (IF outcome = "setItem" THEN <<>> ELSE <<Ev("write", NoHandler, state[t])>>)
                \o (IF outcome = "ok" THEN <<Ev("post", NoHandler, state[t])>> ELSE <<>>)
    /\ UNCHANGED <<state, listeners, closures, now, calls>>

\* the debounce timer fires and runs the function wrapped by persist:
\* try { setItem(key, JSON.stringify(state)); postMessage(state) } catch { console.warn }
PersistFire(t, outcome) ==
    /\ timer[t]
    /\ \A u \in Tabs \ {t} : Len(inbox[u]) < MaxQueue
    /\ op' = Call("persist", t, "-")
    /\ ret' = Ret("void")
    /\ timer' = [timer EXCEPT ![t] = FALSE]
    /\ storage' = IF outcome = "setItem" THEN storage ELSE JSONStringify(state[t])
    /\ io' = [writes |-> io.writes + (IF outcome = "setItem" THEN 0 ELSE 1),
              posts |-> io.posts + (IF outcome = "ok" THEN 1 ELSE 0)]
    /\ inbox' = IF outcome = "ok"
                THEN [u \in Tabs |-> IF u = t THEN inbox[u] ELSE Append(inbox[u], state[t])]
                ELSE inbox
    /\ log' = (IF outcome = "setItem" THEN <<>> ELSE <<Ev("write", NoHandler, state[t])>>)
                \o (IF outcome = "ok" THEN <<Ev("post", NoHandler, state[t])>>
                    ELSE <<Ev("warn", NoHandler, state[t])>>)
    /\ UNCHANGED <<state, listeners, closures, now, calls>>

\* mutant: the message is applied through the persisting path
ReceivePersists(t) ==
    /\ inbox[t] # <<>>
    /\ op' = Call("onmessage", t, "-")
    /\ ret' = Ret("void")
    /\ state' = [state EXCEPT ![t] = Head(inbox[t])]
    /\ inbox' = [inbox EXCEPT ![t] = Tail(@)]
    /\ log' = <<Ev("set", NoHandler, Head(inbox[t]))>> \o notify(t, Head(inbox[t])) \o <<Ev("schedule", NoHandler, Head(inbox[t]))>>
    /\ timer' = [timer EXCEPT ![t] = TRUE]
    /\ UNCHANGED <<listeners, closures, storage, io, now, calls>>

\* channel.onmessage
Receive(t) ==
    /\ inbox[t] # <<>>
    /\ op' = Call("onmessage", t, "-")
    /\ ret' = Ret("void")
    /\ state' = [state EXCEPT ![t] = Head(inbox[t])]
    /\ inbox' = [inbox EXCEPT ![t] = Tail(@)]
    /\ log' = <<Ev("set", NoHandler, Head(inbox[t]))>> \o notify(t, Head(inbox[t]))
    /\ UNCHANGED <<listeners, closures, timer, storage, io, now, calls>>

\* the tab is (re)loaded: new ColorCartStore() hydrates from localStorage;
\* the old page's listeners, timer and channel are gone
Construct(t) ==
    /\ op' = Call("construct", t, "-")
    /\ ret' = Ret("void")
    /\ state' = [state EXCEPT ![t] = hydrate(DefaultState, storage)]
    /\ listeners' = [listeners EXCEPT ![t] = <<>>]
    /\ closures' = [closures EXCEPT ![t] = {}]
    /\ timer' = [timer EXCEPT ![t] = FALSE]
    /\ inbox' = [inbox EXCEPT ![t] = <<>>]
    /\ timeouts' = [timeouts EXCEPT ![t] = NoTimeout]
    /\ log' = <<>>
    /\ UNCHANGED <<storage, io, now, calls>>

(***************************************************************************)
(* Component factory                                                       *)
(***************************************************************************)
\* the page of tab A hosts the components
Page == "A"
Els == {"e1"}
\* values of Math.random().toString(36).slice(2, 9); two draws may coincide
Cids == {"c1", "c2"}
Names == {"color-picker", "counter"}

\* {...definition.defaultState} when the definition has none
EmptyObject == <<>>

\* the definitions passed to defineComponent, by the hooks they have:
\* the color-picker block; a counter with render, onStateChange and destroy hooks;
\* a toggle whose mounted hook binds two click handlers to its button, the first
\* calling c.setState with an updater function; a definition whose mounted hook
\* binds a click handler, subscribes () => c.render() to the cart and then throws
\* (throws: the mounted hook ends by throwing); a definition without any hook
Def(d) ==
    CASE d = "picker" ->
            [defaultState |-> [filter |-> "null", notification |-> "null"],
             setup |-> TRUE, render |-> TRUE, mounted |-> TRUE, destroy |-> FALSE, onStateChange |-> FALSE,
             throws |-> FALSE]
      [] d = "counter" ->
            [defaultState |-> [count |-> 0],
             setup |-> FALSE, render |-> TRUE, mounted |-> FALSE, destroy |-> TRUE, onStateChange |-> TRUE,
             throws |-> FALSE]
      [] d = "toggle" ->
            [defaultState |-> [count |-> 0],
             setup |-> FALSE, render |-> TRUE, mounted |-> TRUE, destroy |-> FALSE, onStateChange |-> FALSE,
             throws |-> FALSE]
      [] d = "faulty" ->
            [defaultState |-> [count |-> 0],
             setup |-> FALSE, render |-> TRUE, mounted |-> TRUE, destroy |-> FALSE, onStateChange |-> FALSE,
             throws |-> TRUE]
      [] OTHER ->
            [defaultState |-> EmptyObject,
             setup |-> FALSE, render |-> FALSE, mounted |-> FALSE, destroy |-> FALSE, onStateChange |-> FALSE,
             throws |-> FALSE]

\* the (name, definition) pairs defineComponent is called with after the
\* color-picker block has registered its own
Definitions == {<<"counter", "counter">>, <<"counter", "plain">>}

\* arguments of setState: a partial object or an updater function
Partial(val) == [kind |-> "partial", val |-> val]
\* the updater function (s) => ({ count: 1 - s.count })
Toggle == [kind |-> "fn", val |-> EmptyObject]
UpdatesFor(d) ==
    CASE d = "picker" -> {Partial(EmptyObject), Partial([notification |-> "success"]),
                          Partial([notification |-> "null"])}
      [] d = "counter" -> {Partial(EmptyObject), Partial([count |-> 1]), Toggle}
      [] OTHER -> {Partial(EmptyObject)}
\* how the observation names the argument of setState
UpdatesKind(u) == IF u = Partial(EmptyObject) THEN "empty" ELSE u.kind
\* typeof updates === 'function' ? updates(state) : updates
ApplyUpdates(u, st) == IF u.kind = "fn" THEN [count |-> 1 - st.count] ELSE u.val

\* the key of events.handlers: `${event}::${scope} ${selector}`, scope = [data-cid="cid"]
Key(event, cid, selector) == [event |-> event, cid |-> cid, selector |-> selector]
NoKey == Key("-", "-", "-")

\* entries of cleanupFns: the closure events.on returned, the closure store.subscribe
\* returned, or a function given to onDestroy
BusUnsub(key, h) == [kind |-> "bus", key |-> key, h |-> h]
StoreUnsub(h) == [kind |-> "store", key |-> NoKey, h |-> h]
Fn(f) == [kind |-> "fn", key |-> NoKey, h |-> Handler(f, 0)]
Fns == {"f", "g"}

\* the api object of instance i, as an argument of a hook
Api(i) == [api |-> i]

\* an effect of a component call: the hook or step, the instance, the value it saw
CEv(e, i, x) == [ev |-> e, h |-> Handler("-", i), arg |-> x]

\* the observed component call and its result
CCall(name, i, el, arg) == [name |-> name, tab |-> Page, inst |-> i, el |-> el, arg |-> arg]
RetInst(i) == [v |-> "instance", inst |-> i]

\* what definition.render(api) returns: the markup is a function of state and props
\* and, for the color-picker, of colorCart.count as it is when the hook runs
RenderHtmlWith(d, st, pr, cart) ==
    [def |-> d, state |-> st, props |-> pr,
     saved |-> IF d = "picker" THEN count(cart) ELSE 0]
RenderHtml(d, st, pr) == RenderHtmlWith(d, st, pr, state[Page])
NoMarkup == [def |-> "-", state |-> EmptyObject, props |-> EmptyObject, saved |-> 0]

\* api.render: call the render hook if there is one and assign what it returns
\* (the render hooks of Def return markup, never undefined)
RenderLog(d, i, st) == IF Def(d).render THEN <<CEv("render", i, st)>> ELSE <<>>
RenderMarkup(d, el, st, pr) ==
    IF Def(d).render THEN [innerHTML EXCEPT ![el] = RenderHtml(d, st, pr)] ELSE innerHTML

\* the cleanup entries the mounted hook registers: the color-picker calls
\* c.onActivate (two c.on), c.on and c.subscribe(colorCart, () => c.render());
\* the toggle calls c.on twice with the same event and selector
MountedCleanups(d, i, cid) ==
    CASE d = "picker" ->
            <<BusUnsub(Key("click", cid, ".swatch-interactive"), Handler("swatch-click", i)),
              BusUnsub(Key("keydown", cid, ".swatch-interactive"), Handler("swatch-keydown", i)),
              BusUnsub(Key("click", cid, ".filter-btn"), Handler("filter-click", i)),
              StoreUnsub(PickerHandler(i))>>
      [] d = "toggle" ->
            <<BusUnsub(Key("click", cid, ".btn"), Handler("increment", i)),
              BusUnsub(Key("click", cid, ".btn"), Handler("report", i))>>
      [] d = "faulty" ->
            <<BusUnsub(Key("click", cid, ".btn"), Handler("report", i)),
              StoreUnsub(PickerHandler(i))>>
      [] OTHER -> <<>>

\* the effects of the mounted hook: one c.on per bus entry; store.subscribe invokes
\* the handler at once, which renders again
MountedLog(d, i, st) ==
    LET cs == MountedCleanups(d, i, "-") IN
    IF ~Def(d).mounted THEN <<>>
    ELSE <<CEv("mounted", i, st)>>
            \o [j \in DOMAIN SelectSeq(cs, LAMBDA c : c.kind = "bus") |-> CEv("on", i, st)]
            \o (IF \E j \in DOMAIN cs : cs[j].kind = "store"
                THEN <<CEv("subscribe", i, st)>> \o RenderLog(d, i, st) ELSE <<>>)

\* EventBus.on(event, selector, handler): create the key's set if needed, add the
\* handler.  events.handlers is a Map of Sets, both in insertion order
BusOn(hs, key, h) ==
    IF \E j \in DOMAIN hs : hs[j].key = key
    THEN [j \in DOMAIN hs |-> IF hs[j].key = key THEN [hs[j] EXCEPT !.hs = SetAdd(@, h)] ELSE hs[j]]
    ELSE Append(hs, [key |-> key, hs |-> <<h>>])

\* EventBus.on for every bus entry of cs, in order
RECURSIVE BusAdd(_, _)
BusAdd(hs, cs) ==
    IF cs = <<>> THEN hs
    ELSE BusAdd(IF Head(cs).kind = "bus" THEN BusOn(hs, Head(cs).key, Head(cs).h) ELSE hs, Tail(cs))

\* mutant: the closure empties the set of its key
BusDeleteClearsKey(hs, cs) ==
    [j \in DOMAIN hs |->
        [hs[j] EXCEPT !.hs = IF \E k \in DOMAIN cs : cs[k].kind = "bus" /\ cs[k].key = hs[j].key
                             THEN <<>> ELSE @]]

\* the closures events.on returned, run for every bus entry of cs:
\* this.handlers.get(key)?.delete(handler); the key stays
BusDelete(hs, cs) ==
    [j \in DOMAIN hs |->
        [hs[j] EXCEPT !.hs = SelectSeq(@, LAMBDA h :
            ~\E k \in DOMAIN cs : cs[k].kind = "bus" /\ cs[k].key = hs[j].key /\ cs[k].h = h)]]

\* store.subscribe for every store entry of cs, in order
RECURSIVE StoreAdd(_, _)
StoreAdd(ls, cs) ==
    IF cs = <<>> THEN ls
    ELSE StoreAdd(IF Head(cs).kind = "store" THEN SetAdd(ls, Head(cs).h) ELSE ls, Tail(cs))

\* the closures store.subscribe returned, run for every store entry of cs
StoreDelete(ls, cs) ==
    SelectSeq(ls, LAMBDA h : ~\E j \in DOMAIN cs : cs[j].kind = "store" /\ cs[j].h = h)

CompInit ==
    /\ registry = [n \in Names |-> IF n = "color-picker" THEN "picker" ELSE "none"]
    /\ componentInstances = [e \in Els |-> 0]
    /\ inst = <<>>
    /\ dataset = [e \in Els |-> "none"]
    /\ innerHTML = [e \in Els |-> NoMarkup]
    /\ handlers = <<>>
    /\ bound = FALSE

storeRest == <<state, timer, inbox, storage, io, now, calls, timeouts>>

\* defineComponent(name, definition)
DefineComponent(name, d) ==
    /\ op' = CCall("defineComponent", 0, "-", name)
    /\ ret' = Ret("void")
    /\ log' = <<>>
    /\ registry' = [registry EXCEPT ![name] = d]
    /\ UNCHANGED <<componentInstances, inst, dataset, innerHTML, handlers, bound, listeners, closures>>
    /\ UNCHANGED storeRest

\* mutant: the live-instance test is missing
CreateComponentAgain(name, el, initialProps, cid) ==
    LET d == registry[name]
        i == Len(inst) + 1
        st == Def(d).defaultState
        cs == MountedCleanups(d, i, cid)
    IN
    /\ op' = CCall("createComponent", 0, el, name)
    /\ UNCHANGED <<registry, storeRest>>
    /\ IF d = "none"
       THEN /\ ret' = Ret("Error: not defined")
            /\ log' = <<>>
            /\ UNCHANGED <<componentInstances, inst, dataset, innerHTML, handlers, bound, listeners, closures>>
       ELSE /\ Len(inst) < MaxInst
            /\ dataset' = [dataset EXCEPT ![el] = cid]
            /\ inst' = Append(inst, [el |-> el, def |-> d, state |-> st, props |-> initialProps, cleanupFns |-> cs, timers |-> 0])
            /\ innerHTML' = RenderMarkup(d, el, st, initialProps)
            /\ handlers' = BusAdd(handlers, cs)
            /\ bound' = (bound \/ \E j \in DOMAIN cs : cs[j].kind = "bus")
            /\ listeners' = [listeners EXCEPT ![Page] = StoreAdd(@, cs)]
            /\ closures' = [closures EXCEPT ![Page] = @ \cup {cs[j].h : j \in {k \in DOMAIN cs : cs[k].kind = "store"}}]
            /\ componentInstances' = [componentInstances EXCEPT ![el] = i]
            /\ log' = (IF Def(d).setup THEN <<CEv("setup", i, st)>> ELSE <<>>)
                        \o RenderLog(d, i, st)
                        \o MountedLog(d, i, st)
                        \o <<CEv("register", i, st)>>
            /\ ret' = RetInst(i)

\* mutant: the scope id is stamped before the definition is looked up
CreateComponentStampsFirst(name, el, initialProps, cid) ==
    LET d == registry[name]
        i == Len(inst) + 1
        st == Def(d).defaultState
        cs == MountedCleanups(d, i, cid)
    IN
    /\ op' = CCall("createComponent", 0, el, name)
    /\ UNCHANGED <<registry, storeRest>>
    /\ IF d = "none"
       THEN /\ ret' = Ret("Error: not defined")
            /\ log' = <<>>
            /\ dataset' = [dataset EXCEPT ![el] = cid]
            /\ UNCHANGED <<componentInstances, inst, innerHTML, handlers, bound, listeners, closures>>
       ELSE IF componentInstances[el] # 0
       THEN /\ ret' = RetInst(componentInstances[el])
            /\ log' = <<>>
            /\ UNCHANGED <<componentInstances, inst, dataset, innerHTML, handlers, bound, listeners, closures>>
       ELSE /\ Len(inst) < MaxInst
            /\ dataset' = [dataset EXCEPT ![el] = cid]
            /\ inst' = Append(inst, [el |-> el, def |-> d, state |-> st, props |-> initialProps, cleanupFns |-> cs, timers |-> 0])
            /\ innerHTML' = RenderMarkup(d, el, st, initialProps)
            /\ handlers' = BusAdd(handlers, cs)
            /\ bound' = (bound \/ \E j \in DOMAIN cs : cs[j].kind = "bus")
            /\ listeners' = [listeners EXCEPT ![Page] = StoreAdd(@, cs)]
            /\ closures' = [closures EXCEPT ![Page] = @ \cup {cs[j].h : j \in {k \in DOMAIN cs : cs[k].kind = "store"}}]
            /\ componentInstances' = [componentInstances EXCEPT ![el] = i]
            /\ log' = (IF Def(d).setup THEN <<CEv("setup", i, st)>> ELSE <<>>)
                        \o RenderLog(d, i, st)
                        \o MountedLog(d, i, st)
                        \o <<CEv("register", i, st)>>
            /\ ret' = RetInst(i)

\* mutant: the mounted hook runs before the first render
CreateComponentMountsFirst(name, el, initialProps, cid) ==
    LET d == registry[name]
        i == Len(inst) + 1
        st == Def(d).defaultState
        cs == MountedCleanups(d, i, cid)
    IN
    /\ op' = CCall("createComponent", 0, el, name)
    /\ UNCHANGED <<registry, storeRest>>
    /\ IF d = "none"
       THEN /\ ret' = Ret("Error: not defined")
            /\ log' = <<>>
            /\ UNCHANGED <<componentInstances, inst, dataset, innerHTML, handlers, bound, listeners, closures>>
       ELSE IF componentInstances[el] # 0
       THEN /\ ret' = RetInst(componentInstances[el])
            /\ log' = <<>>
            /\ UNCHANGED <<componentInstances, inst, dataset, innerHTML, handlers, bound, listeners, closures>>
       ELSE /\ Len(inst) < MaxInst
            /\ dataset' = [dataset EXCEPT ![el] = cid]
            /\ inst' = Append(inst, [el |-> el, def |-> d, state |-> st, props |-> initialProps, cleanupFns |-> cs, timers |-> 0])
            /\ innerHTML' = RenderMarkup(d, el, st, initialProps)
            /\ handlers' = BusAdd(handlers, cs)
            /\ bound' = (bound \/ \E j \in DOMAIN cs : cs[j].kind = "bus")
            /\ listeners' = [listeners EXCEPT ![Page] = StoreAdd(@, cs)]
            /\ closures' = [closures EXCEPT ![Page] = @ \cup {cs[j].h : j \in {k \in DOMAIN cs : cs[k].kind = "store"}}]
            /\ componentInstances' = [componentInstances EXCEPT ![el] = i]
            /\ log' = (IF Def(d).setup THEN <<CEv("setup", i, st)>> ELSE <<>>)
                        \o MountedLog(d, i, st)
                        \o RenderLog(d, i, st)
                        \o <<CEv("register", i, st)>>
            /\ ret' = RetInst(i)

\* createComponent(name, element, initialProps); cid is the random scope id drawn.
\* An exception of a hook leaves createComponent before componentInstances.set
CreateComponent(name, el, initialProps, cid) ==
    LET d == registry[name]
        i == Len(inst) + 1
        st == Def(d).defaultState
        cs == MountedCleanups(d, i, cid)
    IN
    /\ op' = CCall("createComponent", 0, el, name)
    /\ UNCHANGED <<registry, storeRest>>
    /\ IF d = "none"
       THEN /\ ret' = Ret("Error: not defined")
            /\ log' = <<>>
            /\ UNCHANGED <<componentInstances, inst, dataset, innerHTML, handlers, bound, listeners, closures>>
       ELSE IF componentInstances[el] # 0
       THEN /\ ret' = RetInst(componentInstances[el])
            /\ log' = <<>>
            /\ UNCHANGED <<componentInstances, inst, dataset, innerHTML, handlers, bound, listeners, closures>>
       ELSE /\ Len(inst) < MaxInst
            /\ dataset' = [dataset EXCEPT ![el] = cid]
            /\ inst' = Append(inst, [el |-> el, def |-> d, state |-> st, props |-> initialProps, cleanupFns |-> cs, timers |-> 0])
            /\ innerHTML' = RenderMarkup(d, el, st, initialProps)
            /\ handlers' = BusAdd(handlers, cs)
            /\ bound' = (bound \/ \E j \in DOMAIN cs : cs[j].kind = "bus")
            /\ listeners' = [listeners EXCEPT ![Page] = StoreAdd(@, cs)]
            /\ closures' = [closures EXCEPT ![Page] = @ \cup {cs[j].h : j \in {k \in DOMAIN cs : cs[k].kind = "store"}}]
            /\ componentInstances' = IF Def(d).throws THEN componentInstances
                                   ELSE [componentInstances EXCEPT ![el] = i]
            /\ log' = (IF Def(d).setup THEN <<CEv("setup", i, st)>> ELSE <<>>)
                        \o RenderLog(d, i, st)
                        \o MountedLog(d, i, st)
                        \o (IF Def(d).throws THEN <<CEv("throw", i, st)>> ELSE <<CEv("register", i, st)>>)
            /\ ret' = IF Def(d).throws THEN Ret("Error: hook threw") ELSE RetInst(i)

\* mutant: setState renders only when the merge changed the state
SetStateSkipsUnchanged(i, u) ==
    LET c == inst[i]
        prev == c.state
        next == Merge(prev, ApplyUpdates(u, prev))
    IN
    /\ op' = CCall("setState", i, c.el, UpdatesKind(u))
    /\ ret' = Ret("void")
    /\ inst' = [inst EXCEPT ![i].state = next]
    /\ log' = (IF Def(c.def).onStateChange
               THEN <<CEv("onStateChange", i, [a1 |-> Api(i), a2 |-> next, a3 |-> prev])>> ELSE <<>>)
                \o (IF next = prev THEN <<>> ELSE RenderLog(c.def, i, next))
    /\ innerHTML' = RenderMarkup(c.def, c.el, next, c.props)
    /\ UNCHANGED <<registry, componentInstances, dataset, handlers, bound, listeners, closures>>
    /\ UNCHANGED storeRest

\* mutant: setState renders before it calls onStateChange
SetStateRendersFirst(i, u) ==
    LET c == inst[i]
        prev == c.state
        next == Merge(prev, ApplyUpdates(u, prev))
    IN
    /\ op' = CCall("setState", i, c.el, UpdatesKind(u))
    /\ ret' = Ret("void")
    /\ inst' = [inst EXCEPT ![i].state = next]
    /\ log' = RenderLog(c.def, i, next)
                \o (IF Def(c.def).onStateChange
                    THEN <<CEv("onStateChange", i, [a1 |-> Api(i), a2 |-> next, a3 |-> prev])>> ELSE <<>>)
    /\ innerHTML' = RenderMarkup(c.def, c.el, next, c.props)
    /\ UNCHANGED <<registry, componentInstances, dataset, handlers, bound, listeners, closures>>
    /\ UNCHANGED storeRest

\* api.setState(updates)
SetState(i, u) ==
    LET c == inst[i]
        prev == c.state
        next == Merge(prev, ApplyUpdates(u, prev))
    IN
    /\ op' = CCall("setState", i, c.el, UpdatesKind(u))
    /\ ret' = Ret("void")
    /\ inst' = [inst EXCEPT ![i].state = next]
    /\ log' = (IF Def(c.def).onStateChange
               THEN <<CEv("onStateChange", i, [a1 |-> Api(i), a2 |-> next, a3 |-> prev])>> ELSE <<>>)
                \o RenderLog(c.def, i, next)
    /\ innerHTML' = RenderMarkup(c.def, c.el, next, c.props)
    /\ UNCHANGED <<registry, componentInstances, dataset, handlers, bound, listeners, closures>>
    /\ UNCHANGED storeRest

\* api.setProps(updates)
SetProps(i, updates) ==
    LET c == inst[i]
        next == Merge(c.props, updates)
    IN
    /\ op' = CCall("setProps", i, c.el, "-")
    /\ ret' = Ret("void")
    /\ inst' = [inst EXCEPT ![i].props = next]
    /\ log' = RenderLog(c.def, i, c.state)
    /\ innerHTML' = RenderMarkup(c.def, c.el, c.state, next)
    /\ UNCHANGED <<registry, componentInstances, dataset, handlers, bound, listeners, closures>>
    /\ UNCHANGED storeRest

\* api.onDestroy(fn)
OnDestroy(i, f) ==
    /\ Len(SelectSeq(inst[i].cleanupFns, LAMBDA c : c.kind = "fn")) < MaxFns
    /\ op' = CCall("onDestroy", i, inst[i].el, f)
    /\ ret' = Ret("void")
    /\ log' = <<>>
    /\ inst' = [inst EXCEPT ![i].cleanupFns = Append(@, Fn(f))]
    /\ UNCHANGED <<registry, componentInstances, dataset, innerHTML, handlers, bound, listeners, closures>>
    /\ UNCHANGED storeRest

\* mutant: destroy leaves the cleanup list as it was
DestroyKeepsCleanups(i) ==
    LET c == inst[i] IN
    /\ op' = CCall("destroy", i, c.el, "-")
    /\ ret' = Ret("void")
    /\ log' = (IF Def(c.def).destroy THEN <<CEv("destroyHook", i, c.state)>> ELSE <<>>)
                \o [j \in DOMAIN c.cleanupFns |-> [ev |-> "cleanup", h |-> c.cleanupFns[j].h, arg |-> c.cleanupFns[j]]]
                \o <<CEv("unregister", i, [had |-> componentInstances[c.el] # 0])>>
    /\ handlers' = BusDelete(handlers, c.cleanupFns)
    /\ listeners' = [listeners EXCEPT ![Page] = StoreDelete(@, c.cleanupFns)]
    /\ inst' = inst
    /\ componentInstances' = [componentInstances EXCEPT ![c.el] = 0]
    /\ dataset' = [dataset EXCEPT ![c.el] = "none"]
    /\ UNCHANGED <<registry, innerHTML, bound, closures>>
    /\ UNCHANGED storeRest

\* mutant: destroy empties the cleanup list without running its entries
DestroySkipsCleanups(i) ==
    LET c == inst[i] IN
    /\ op' = CCall("destroy", i, c.el, "-")
    /\ ret' = Ret("void")
    /\ log' = (IF Def(c.def).destroy THEN <<CEv("destroyHook", i, c.state)>> ELSE <<>>)
                \o <<CEv("unregister", i, [had |-> componentInstances[c.el] # 0])>>
    /\ handlers' = handlers
    /\ listeners' = listeners
    /\ inst' = [inst EXCEPT ![i].cleanupFns = <<>>]
    /\ componentInstances' = [componentInstances EXCEPT ![c.el] = 0]
    /\ dataset' = [dataset EXCEPT ![c.el] = "none"]
    /\ UNCHANGED <<registry, innerHTML, bound, closures>>
    /\ UNCHANGED storeRest

\* api.destroy(), on any instance a caller still holds
Destroy(i) ==
    LET c == inst[i] IN
    /\ op' = CCall("destroy", i, c.el, "-")
    /\ ret' = Ret("void")
    /\ log' = (IF Def(c.def).destroy THEN <<CEv("destroyHook", i, c.state)>> ELSE <<>>)
                \o [j \in DOMAIN c.cleanupFns |-> [ev |-> "cleanup", h |-> c.cleanupFns[j].h, arg |-> c.cleanupFns[j]]]
                \o <<CEv("unregister", i, [had |-> componentInstances[c.el] # 0])>>
    /\ handlers' = BusDelete(handlers, c.cleanupFns)
    /\ listeners' = [listeners EXCEPT ![Page] = StoreDelete(@, c.cleanupFns)]
    /\ inst' = [inst EXCEPT ![i].cleanupFns = <<>>]
    /\ componentInstances' = [componentInstances EXCEPT ![c.el] = 0]
    /\ dataset' = [dataset EXCEPT ![c.el] = "none"]
    /\ UNCHANGED <<registry, innerHTML, bound, closures>>
    /\ UNCHANGED storeRest

(***************************************************************************)
(* Auto-initialisation by data attribute                                   *)
(***************************************************************************)
\* the elements of a page: e1 is the color-picker block its decorator mounts,
\* e2 is <div data-component="counter">
TreeEls == {"e1", "e2"}
\* el.dataset.component
DataComponent(el) == IF el = "e2" THEN "counter" ELSE "none"
\* root.querySelectorAll('[data-component]') for root = document: one element
Marked == CHOOSE el \in TreeEls : DataComponent(el) # "none"

\* decorate(block) of the color-picker block
Decorate(cid) == CreateComponent("color-picker", "e1", EmptyObject, cid)

\* initComponents(document)
InitComponents(cid) ==
    IF componentInstances[Marked] = 0 /\ registry[DataComponent(Marked)] # "none"
    THEN CreateComponent(DataComponent(Marked), Marked, EmptyObject, cid)
    ELSE /\ op' = CCall("initComponents", 0, "-", "-")
         /\ ret' = Ret("void")
         /\ log' = <<>>
         /\ UNCHANGED <<compVars, listeners, closures, storeRest>>

\* destroyComponents(document)
DestroyComponents ==
    IF componentInstances[Marked] # 0
    THEN Destroy(componentInstances[Marked])
    ELSE /\ op' = CCall("destroyComponents", 0, "-", "-")
         /\ ret' = Ret("void")
         /\ log' = <<>>
         /\ UNCHANGED <<compVars, listeners, closures, storeRest>>

(***************************************************************************)
(* Event delegation                                                        *)
(***************************************************************************)
\* the rows of the color-picker block, as setup parses them into c.colors
BlockColors ==
    <<[hex |-> Red.hex, name |-> Red.name, family |-> "warm"],
      [hex |-> Green.hex, name |-> Green.name, family |-> "warm"]>>
\* c.families
Families == {BlockColors[j].family : j \in DOMAIN BlockColors}

\* an element of a component's markup an event can have as its target:
\* the class a selector matches it by and its data-hex / data-family attribute
Target(cls, data) == [cls |-> cls, data |-> data]
\* the elements the render hooks produce: the color-picker an "All" button, one
\* button per family and one interactive swatch per color of the current filter;
\* the toggle one button
TargetsOf(m) ==
    CASE m.def = "picker" ->
            {Target(".filter-btn", f) : f \in {""} \cup Families}
                \cup {Target(".swatch-interactive", BlockColors[j].hex) :
                        j \in {k \in DOMAIN BlockColors :
                                m.state.filter = "null" \/ BlockColors[k].family = m.state.filter}}
      [] m.def \in {"toggle", "faulty"} -> {Target(".btn", "-")}
      [] OTHER -> {}
\* { hex: el.dataset.hex, name: el.dataset.name }
ColorOf(target) ==
    LET j == CHOOSE k \in DOMAIN BlockColors : BlockColors[k].hex = target.data
    IN  [hex |-> BlockColors[j].hex, name |-> BlockColors[j].name]
\* e.key of a keydown event
KeyNames == {"Enter", "a"}

\* what the handlers of one dispatch have done so far: the page's store, the
\* instances, the markup, the effects, whether the event's target (an element of
\* tel's markup) has been removed from the document, and whether a handler threw
World(el) ==
    [cart |-> state[Page], timer |-> timer[Page], calls |-> calls, now |-> now,
     inst |-> inst, html |-> innerHTML, log |-> <<>>, tel |-> el, det |-> FALSE, err |-> FALSE]

\* api.render of instance i: assigning innerHTML replaces every child of the element
WRender(w, i) ==
    LET c == w.inst[i] IN
    IF Def(c.def).render
    THEN [w EXCEPT !.html[c.el] = RenderHtmlWith(c.def, c.state, c.props, w.cart),
                   !.log = Append(@, CEv("render", i, c.state)),
                   !.det = @ \/ c.el = w.tel]
    ELSE w

\* api.setState(updates) of instance i
WSetState(w, i, u) ==
    LET c == w.inst[i]
        prev == c.state
        next == Merge(prev, ApplyUpdates(u, prev))
    IN  WRender([w EXCEPT !.inst[i].state = next,
                          !.log = IF Def(c.def).onStateChange
                                  THEN Append(@, CEv("onStateChange", i, [a1 |-> Api(i), a2 |-> next, a3 |-> prev]))
                                  ELSE @], i)

\* Store.notify on the page: the cart-badge listener writes the badge, the
\* listener of a color-picker instance calls c.render()
RECURSIVE WNotify(_, _)
WNotify(w, ls) ==
    IF ls = <<>> THEN w
    ELSE LET w1 == [w EXCEPT !.log = Append(@, Ev("notify", Head(ls), w.cart))]
         IN  WNotify(IF Head(ls).owner = "color-picker" THEN WRender(w1, Head(ls).inst) ELSE w1, Tail(ls))

\* what colorCart.addColor returns or throws
AddColorResult(cart, color) ==
    IF isFull(cart) THEN "full"
    ELSE IF hasColor(cart, color.hex) = "TypeError" THEN "TypeError"
    ELSE IF hasColor(cart, color.hex) = "true" THEN "duplicate"
    ELSE "success"

\* colorCart.addColor(color) called by a handler; n is the value of Date.now()
WAddColor(w, color, n) ==
    LET r == AddColorResult(w.cart, color)
        s == [w.cart EXCEPT !.colors = Append(@, Entry(color, n))]
    IN  IF r = "TypeError" THEN [w EXCEPT !.err = TRUE]
        ELSE IF r # "success" THEN w
        ELSE LET w1 == WNotify([w EXCEPT !.cart = s, !.now = n, !.calls = @ + 1,
                                         !.log = Append(@, Ev("set", NoHandler, s))],
                               listeners[Page])
             IN  [w1 EXCEPT !.timer = TRUE, !.log = Append(@, Ev("schedule", NoHandler, s))]

\* the handler the color-picker gives to c.onActivate
WSwatch(w, i, target, n) ==
    LET r == AddColorResult(w.cart, ColorOf(target))
        w1 == WAddColor(w, ColorOf(target), n)
        w2 == WSetState(w1, i, Partial([notification |-> IF r = "success" THEN "success" ELSE "warning"]))
    IN  IF w1.err THEN w1
        ELSE [w2 EXCEPT !.inst[i].timers = @ + 1]

\* one handler of the bus called with (event, target)
WHandler(w, h, target, k, n) ==
    CASE h.owner = "swatch-click" -> WSwatch(w, h.inst, target, n)
      [] h.owner = "swatch-keydown" -> IF k \in {"Enter", " "} THEN WSwatch(w, h.inst, target, n) ELSE w
      [] h.owner = "filter-click" ->
            WSetState(w, h.inst, Partial([filter |-> IF target.data = "" THEN "null" ELSE target.data]))
      [] h.owner = "increment" -> WSetState(w, h.inst, Toggle)
      [] OTHER -> w

\* handlers.forEach((fn) => fn(event, target)); an exception ends the dispatch
RECURSIVE WHandlers(_, _, _, _, _)
WHandlers(w, hs, target, k, n) ==
    IF hs = <<>> \/ w.err THEN w
    ELSE WHandlers(
            WHandler([w EXCEPT !.log = Append(@, Ev("handle", Head(hs), [attached |-> ~w.det]))],
                     Head(hs), target, k, n),
            Tail(hs), target, k, n)

\* event.target.closest(selector) is an element: the selector is scope + class, so
\* the target must have the class and an ancestor with the data-cid of the scope,
\* which a removed element no longer has
Closest(key, el, target, det) ==
    ~det /\ dataset[el] = key.cid /\ target.cls = key.selector

\* EventBus.dispatch over the keys in insertion order
RECURSIVE WDispatch(_, _, _, _, _, _, _)
WDispatch(w, ks, type, el, target, k, n) ==
    IF ks = <<>> \/ w.err THEN w
    ELSE WDispatch(
            IF Head(ks).key.event = type /\ Closest(Head(ks).key, el, target, w.det) /\ ~w.det
            THEN WHandlers(w, Head(ks).hs, target, k, n)
            ELSE w,
            Tail(ks), type, el, target, k, n)

\* a native event of this type on an element of el's markup reaches the document
\* listener EventBus.init added
Dispatch(type, el, target, k, n) ==
    LET w == WDispatch(World(el), handlers, type, el, target, k, n) IN
    /\ bound
    /\ target \in TargetsOf(innerHTML[el])
    /\ w.calls <= MaxCalls
    /\ \A i \in DOMAIN w.inst : w.inst[i].timers <= MaxTimers
    /\ op' = CCall("dispatch", 0, el, type)
    /\ ret' = Ret(IF w.err THEN "TypeError" ELSE "void")
    /\ log' = w.log
    /\ state' = [state EXCEPT ![Page] = w.cart]
    /\ timer' = [timer EXCEPT ![Page] = w.timer]
    /\ calls' = w.calls
    /\ now' = w.now
    /\ inst' = w.inst
    /\ innerHTML' = w.html
    /\ UNCHANGED <<registry, componentInstances, dataset, handlers, bound, listeners, closures,
                   inbox, storage, io, timeouts>>

\* the callback of setTimeout(() => c.setState({ notification: null }), 3000)
NotificationTimeout(i) ==
    LET w == WSetState(World(inst[i].el), i, Partial([notification |-> "null"])) IN
    /\ inst[i].timers > 0
    /\ op' = CCall("timeout", i, inst[i].el, "-")
    /\ ret' = Ret("void")
    /\ log' = w.log
    /\ inst' = [w.inst EXCEPT ![i].timers = @ - 1]
    /\ innerHTML' = w.html
    /\ UNCHANGED <<registry, componentInstances, dataset, handlers, bound, listeners, closures>>
    /\ UNCHANGED storeRest

\* a store call or a message on the page while components are mounted: the
\* listeners notify invoked have run, those of color-picker instances rendering
PageStore(A) ==
    LET w == WNotify([World("-") EXCEPT !.cart = state'[Page]], listeners[Page]) IN
    /\ A
    /\ innerHTML' = IF \E j \in DOMAIN log' : log'[j].ev = "notify" THEN w.html ELSE innerHTML
    /\ UNCHANGED <<registry, componentInstances, inst, dataset, handlers, bound, timeouts>>

\* the closure api.on returned for entry j of instance i's cleanup list, called by
\* the code that kept it: this.handlers.get(key)?.delete(handler)
Unsub(i, j) ==
    LET c == inst[i].cleanupFns[j] IN
    /\ c.kind = "bus"
    /\ op' = CCall("unsub", i, inst[i].el, "-")
    /\ ret' = Ret("void")
    /\ log' = <<Ev("delete", c.h, c.key)>>
    /\ handlers' = BusDelete(handlers, <<c>>)
    /\ UNCHANGED <<registry, componentInstances, inst, dataset, innerHTML, bound, listeners, closures>>
    /\ UNCHANGED storeRest

\* api.on(event, selector, handler) called again with the event, selector and
\* handler function of entry j: events.on adds the handler to the set of the key
\* and api.on pushes the new closure
On(i, j) ==
    LET c == inst[i].cleanupFns[j] IN
    /\ c.kind = "bus"
    /\ Len(inst[i].cleanupFns) < Len(MountedCleanups(inst[i].def, i, "-")) + MaxFns
    /\ op' = CCall("on", i, inst[i].el, "-")
    /\ ret' = Ret("unsubscribe")
    /\ log' = <<Ev("add", c.h, c.key)>>
    /\ handlers' = BusOn(handlers, c.key, c.h)
    /\ bound' = TRUE
    /\ inst' = [inst EXCEPT ![i].cleanupFns = Append(@, c)]
    /\ UNCHANGED <<registry, componentInstances, dataset, innerHTML, listeners, closures>>
    /\ UNCHANGED storeRest

(***************************************************************************)
(* Core utilities: debounce                                                *)
(***************************************************************************)
\* the arguments the function wrapped on its own is invoked with
Args == {"x", "y"}

\* mutant: a pending timeout is kept instead of being cleared and set again
DebounceCallKeepsPending(d, a) ==
    timeouts' = IF timeouts[d] # NoTimeout THEN timeouts
                ELSE [timeouts EXCEPT ![d] = [due |-> now' + Window, args |-> a]]

\* the function debounce returns, invoked with arguments a at clock now':
\* clearTimeout(id); id = setTimeout(() => fn(...args), ms)
DebounceCall(d, a) ==
    timeouts' = [timeouts EXCEPT ![d] = [due |-> now' + Window, args |-> a]]

\* the timeout of debounced function d has expired and its callback runs
DebounceDue(d) ==
    /\ timeouts[d] # NoTimeout
    /\ now >= timeouts[d].due

\* time passes; a timeout that is due may still be waiting for the event loop
Tick ==
    /\ now < MaxClock
    /\ now' = now + 1
    /\ UNCHANGED <<state, listeners, closures, timer, inbox, storage, io, calls, timeouts, compVars, op, ret, log>>

\* the debounced function "fn" is invoked with argument a
Invoke(a) ==
    /\ now + Window <= MaxClock
    /\ op' = Call("debounced", Page, a)
    /\ ret' = Ret("void")
    /\ now' = now
    /\ DebounceCall("fn", a)
    /\ log' = <<Ev("clearTimeout", NoHandler, timeouts["fn"]), Ev("setTimeout", NoHandler, timeouts'["fn"])>>
    /\ UNCHANGED <<state, listeners, closures, timer, inbox, storage, io, calls, compVars>>

\* the timeout callback of "fn": () => fn(...args)
TimeoutFire ==
    /\ DebounceDue("fn")
    /\ op' = Call("timeout", Page, "-")
    /\ ret' = Ret("void")
    /\ log' = <<Ev("call", NoHandler, timeouts["fn"].args)>>
    /\ timeouts' = [timeouts EXCEPT !["fn"] = NoTimeout]
    /\ UNCHANGED <<state, listeners, closures, timer, inbox, storage, io, now, calls, compVars>>

\* addColor at clock now; a successful call has invoked the debounced persist
TimedAddColor(t, color) ==
    /\ now + Window <= MaxClock
    /\ AddColor(t, color, now)
    /\ IF ret'.v = "success" THEN DebounceCall(t, "-") ELSE timeouts' = timeouts
    /\ UNCHANGED compVars

\* clear at clock now
TimedClear(t) ==
    /\ now + Window <= MaxClock
    /\ Clear(t)
    /\ DebounceCall(t, "-")
    /\ UNCHANGED compVars

\* mutant: the write of the timeout callback is refused
TimedPersistRefused(t) ==
    /\ DebounceDue(t)
    /\ PersistFire(t, "setItem")
    /\ timeouts' = [timeouts EXCEPT ![t] = NoTimeout]
    /\ UNCHANGED compVars

\* the timeout callback of persist
TimedPersist(t) ==
    /\ DebounceDue(t)
    /\ PersistFire(t, "ok")
    /\ timeouts' = [timeouts EXCEPT ![t] = NoTimeout]
    /\ UNCHANGED compVars

(***************************************************************************)
(* Core utilities: esc                                                     *)
(***************************************************************************)
\* a JavaScript string, as the sequence of its characters
JsString(chars) == [kind |-> "string", chars |-> chars]
\* a number, with the characters String() gives for it
JsNumber(chars) == [kind |-> "number", chars |-> chars]

Amp == <<"&", "a", "m", "p", ";">>
Lt == <<"&", "l", "t", ";">>
Gt == <<"&", "g", "t", ";">>
Quot == <<"&", "q", "u", "o", "t", ";">>
Apos == <<"&", "#", "3", "9", ";">>

\* String.prototype.replace(/c/g, r): every occurrence of the character c becomes r
RECURSIVE ReplaceAll(_, _, _)
ReplaceAll(s, c, r) ==
    IF s = <<>> THEN <<>>
    ELSE (IF Head(s) = c THEN r ELSE <<Head(s)>>) \o ReplaceAll(Tail(s), c, r)

\* mutant: the ampersand is replaced last
escAmpLast(str) ==
    IF str.kind \in {"null", "undefined"} THEN <<>>
    ELSE ReplaceAll(ReplaceAll(ReplaceAll(ReplaceAll(ReplaceAll(str.chars,
            "<", Lt), ">", Gt), "\"", Quot), "'", Apos), "&", Amp)

\* esc(str): '' for null and undefined, else String(str) with the five replacements
\* applied one after the other
esc(str) ==
    IF str.kind \in {"null", "undefined"} THEN <<>>
    ELSE ReplaceAll(ReplaceAll(ReplaceAll(ReplaceAll(ReplaceAll(str.chars,
            "&", Amp), "<", Lt), ">", Gt), "\"", Quot), "'", Apos)

\* the characters of the strings passed to esc
EscChars == {"&", "<", ">", "\"", "'", "a", ";"}
RECURSIVE Strings(_)
Strings(n) == IF n = 0 THEN {<<>>} ELSE Strings(n - 1) \cup {Append(x, c) : x \in Strings(n - 1), c \in EscChars}
\* the values passed to esc
EscInputs == {JsString(x) : x \in Strings(MaxStr)} \cup {Null, Undefined, JsNumber(<<"7">>)}

\* esc(x) is evaluated
Esc ==
    /\ op.name = "input"
    /\ op' = [op EXCEPT !.name = "esc"]
    /\ ret' = Ret(esc(op.arg))
    /\ UNCHANGED <<log, state, listeners, closures, timer, inbox, storage, io, now, calls, timeouts, compVars>>

\* esc is applied to text that esc returned: esc(esc(x))
EscAgain ==
    /\ op.name = "esc"
    /\ op' = [op EXCEPT !.name = "esc2", !.arg = JsString(ret.v)]
    /\ ret' = Ret(esc(JsString(ret.v)))
    /\ UNCHANGED <<log, state, listeners, closures, timer, inbox, storage, io, now, calls, timeouts, compVars>>

(***************************************************************************)
(* Specifications                                                          *)
(***************************************************************************)
\* Spec: the saved-colors store in two tabs.  The page of tab A holds a cart-badge
\* block and a color-picker block, the page of tab B a cart-badge block: their
\* decorators have subscribed
Init ==
    /\ StoreInit
    /\ CompInit
    /\ listeners = [t \in Tabs |-> IF t = "A" THEN <<Badge, PickerHandler(1)>> ELSE <<Badge>>]
    /\ closures = [t \in Tabs |-> IF t = "A" THEN {Badge, PickerHandler(1)} ELSE {Badge}]

Next ==
    \/ \E t \in Tabs, c \in Colors, n \in now..MaxTime : AddColor(t, c, n) /\ UNCHANGED <<compVars, timeouts>>
    \/ \E t \in Tabs, id \in 0..MaxTime : RemoveColor(t, id) /\ UNCHANGED <<compVars, timeouts>>
    \/ \E t \in Tabs : Clear(t) /\ UNCHANGED <<compVars, timeouts>>
    \/ \E t \in Tabs, i \in -1..MaxLen, j \in -1..MaxLen : Reorder(t, i, j) /\ UNCHANGED <<compVars, timeouts>>
    \/ \E t \in Tabs : PersistFire(t, "ok") /\ UNCHANGED <<compVars, timeouts>>
    \/ \E t \in Tabs : Receive(t) /\ UNCHANGED <<compVars, timeouts>>

Spec == Init /\ [][Next]_vars

\* SpecSub: the store's listeners.  No block has subscribed yet
SubInit ==
    /\ StoreInit
    /\ CompInit
    /\ listeners = [t \in Tabs |-> <<>>]
    /\ closures = [t \in Tabs |-> {}]

SubNext ==
    \/ \E t \in Tabs, n \in now..MaxTime : AddColor(t, Red, n) /\ UNCHANGED <<compVars, timeouts>>
    \/ \E t \in Tabs : Clear(t) /\ UNCHANGED <<compVars, timeouts>>
    \/ \E t \in Tabs, h \in Handlers : Subscribe(t, h) /\ UNCHANGED <<compVars, timeouts>>
    \/ \E t \in Tabs, h \in Handlers : Unsubscribe(t, h) /\ UNCHANGED <<compVars, timeouts>>
    \/ \E t \in Tabs : PersistFire(t, "ok") /\ UNCHANGED <<compVars, timeouts>>
    \/ \E t \in Tabs : Receive(t) /\ UNCHANGED <<compVars, timeouts>>

SpecSub == SubInit /\ [][SubNext]_vars

\* what localStorage may hold under the store key when a page loads: nothing, text that
\* does not parse, or objects with some of the keys (written by another build of the site)
StoredValues ==
    {NoEntry, Malformed,
     Json([colors |-> <<Entry(Red, 0)>>]),
     Json([maxColors |-> 1]),
     Json([colors |-> <<Entry(Green, 0)>>, theme |-> "dark"])}

\* SpecLoad: pages are loaded and reloaded over whatever storage holds
LoadInit ==
    /\ storage \in StoredValues
    /\ io = [writes |-> 0, posts |-> 0]
    /\ state = [t \in Tabs |-> hydrate(DefaultState, storage)]
    /\ timer = [t \in Tabs |-> FALSE]
    /\ inbox = [t \in Tabs |-> <<>>]
    /\ now = 0
    /\ calls = 0
    /\ timeouts = [d \in Debounced |-> NoTimeout]
    /\ op = Call("construct", "A", "-")
    /\ ret = Ret("void")
    /\ log = <<>>
    /\ CompInit
    /\ listeners = [t \in Tabs |-> <<>>]
    /\ closures = [t \in Tabs |-> {}]

LoadNext ==
    \/ \E t \in Tabs, n \in now..MaxTime : AddColor(t, Red, n) /\ UNCHANGED <<compVars, timeouts>>
    \/ \E t \in Tabs, i \in 0..1 : Reorder(t, i, 0) /\ UNCHANGED <<compVars, timeouts>>
    \/ \E t \in Tabs : PersistFire(t, "ok") /\ UNCHANGED <<compVars, timeouts>>
    \/ \E t \in Tabs : Receive(t) /\ UNCHANGED <<compVars, timeouts>>
    \/ \E t \in Tabs : Construct(t) /\ UNCHANGED compVars

SpecLoad == LoadInit /\ [][LoadNext]_vars

\* the cap of the source's default state
SourceMaxColors == 20
\* Red, Green and Blue as they were saved, in that order
Saved == <<Entry(Red, 0), Entry(Green, 0), Entry(Blue, 1)>>

\* SpecOrder: reordering collections of up to three saved colors, far below the cap
OrderInit ==
    /\ \E k \in 0..Len(Saved) :
            state = [t \in Tabs |-> [colors |-> SubSeq(Saved, 1, k), maxColors |-> SourceMaxColors]]
    /\ timer = [t \in Tabs |-> FALSE]
    /\ inbox = [t \in Tabs |-> <<>>]
    /\ storage = NoEntry
    /\ io = [writes |-> 0, posts |-> 0]
    /\ now = 1
    /\ calls = 0
    /\ timeouts = [d \in Debounced |-> NoTimeout]
    /\ op = Call("construct", "A", "-")
    /\ ret = Ret("void")
    /\ log = <<>>
    /\ CompInit
    /\ listeners = [t \in Tabs |-> <<Badge>>]
    /\ closures = [t \in Tabs |-> {Badge}]

OrderNext ==
    \/ \E t \in Tabs, i \in -1..MaxLen, j \in -1..MaxLen : Reorder(t, i, j) /\ UNCHANGED <<compVars, timeouts>>
    \/ \E t \in Tabs : PersistFire(t, "ok") /\ UNCHANGED <<compVars, timeouts>>
    \/ \E t \in Tabs : Receive(t) /\ UNCHANGED <<compVars, timeouts>>

SpecOrder == OrderInit /\ [][OrderNext]_vars

\* SpecEsc: esc on every string of up to MaxStr characters, on null, undefined and a number
EscInit ==
    /\ state = [t \in Tabs |-> DefaultState]
    /\ timer = [t \in Tabs |-> FALSE]
    /\ inbox = [t \in Tabs |-> <<>>]
    /\ storage = NoEntry
    /\ io = [writes |-> 0, posts |-> 0]
    /\ now = 0
    /\ calls = 0
    /\ timeouts = [d \in Debounced |-> NoTimeout]
    /\ \E x \in EscInputs : op = Call("input", Page, x)
    /\ ret = Ret("void")
    /\ log = <<>>
    /\ CompInit
    /\ listeners = [t \in Tabs |-> <<>>]
    /\ closures = [t \in Tabs |-> {}]

EscNext ==
    \/ Esc
    \/ EscAgain

SpecEsc == EscInit /\ [][EscNext]_vars

\* SpecTimed: the store of the two tabs and a debounced function, with the clock.
\* The clock advances and a timeout that is due eventually runs
TimedNext ==
    \/ Tick
    \/ \E a \in Args : Invoke(a)
    \/ TimeoutFire
    \/ \E t \in Tabs : TimedAddColor(t, Red)
    \/ \E t \in Tabs : TimedClear(t)
    \/ \E t \in Tabs : TimedPersist(t)
    \/ \E t \in Tabs : Receive(t) /\ UNCHANGED <<compVars, timeouts>>

SpecTimed ==
    /\ Init
    /\ [][TimedNext]_vars
    /\ WF_vars(Tick)
    /\ WF_vars(TimeoutFire)
    /\ \A t \in Tabs : WF_vars(TimedPersist(t))
    /\ \A t \in Tabs : WF_vars(Receive(t) /\ UNCHANGED <<compVars, timeouts>>)

\* SpecFail: the store of Spec with a storage that may refuse the write and a channel
\* that may refuse the message
FailNext ==
    \/ \E t \in Tabs, c \in {Red, Green}, n \in now..MaxTime : AddColor(t, c, n) /\ UNCHANGED <<compVars, timeouts>>
    \/ \E t \in Tabs : Clear(t) /\ UNCHANGED <<compVars, timeouts>>
    \/ \E t \in Tabs, o \in Outcomes : PersistFire(t, o) /\ UNCHANGED <<compVars, timeouts>>
    \/ \E t \in Tabs : Receive(t) /\ UNCHANGED <<compVars, timeouts>>

SpecFail == Init /\ [][FailNext]_vars

\* SpecSync: two tabs save colors; a write or a broadcast may be refused; a pending
\* debounce timer eventually fires and a posted message is eventually delivered
SyncNext ==
    \/ \E t \in Tabs, c \in {Red, Green}, n \in now..MaxTime : AddColor(t, c, n) /\ UNCHANGED <<compVars, timeouts>>
    \/ \E t \in Tabs, o \in Outcomes : PersistFire(t, o) /\ UNCHANGED <<compVars, timeouts>>
    \/ \E t \in Tabs : Receive(t) /\ UNCHANGED <<compVars, timeouts>>

SpecSync ==
    /\ Init
    /\ [][SyncNext]_vars
    /\ \A t \in Tabs : WF_vars(\E o \in Outcomes : PersistFire(t, o) /\ UNCHANGED <<compVars, timeouts>>)
    /\ \A t \in Tabs : WF_vars(Receive(t) /\ UNCHANGED <<compVars, timeouts>>)

\* SpecComp: the component factory on the page of tab A
CompNext ==
    \/ \E p \in Definitions : DefineComponent(p[1], p[2])
    \/ \E name \in Names, el \in Els, cid \in Cids : CreateComponent(name, el, EmptyObject, cid)
    \/ \E i \in DOMAIN inst : \E u \in UpdatesFor(inst[i].def) : SetState(i, u)
    \/ \E i \in DOMAIN inst, f \in Fns : OnDestroy(i, f)
    \/ \E i \in DOMAIN inst : Destroy(i)

SpecComp == SubInit /\ [][CompNext]_vars

EventTypes == {"click", "keydown"}

\* SpecPage: the page of tab A with its cart-badge block; color-picker blocks are
\* decorated and destroyed, the user clicks and types on what they rendered, and
\* tab B saves colors that arrive as messages.  The clock stands still
PageInit ==
    /\ StoreInit
    /\ CompInit
    /\ listeners = [t \in Tabs |-> <<Badge>>]
    /\ closures = [t \in Tabs |-> {Badge}]

PageNext ==
    \/ \E name \in Names, el \in Els, cid \in Cids : CreateComponent(name, el, EmptyObject, cid)
    \/ \E i \in DOMAIN inst : Destroy(i)
    \/ \E type \in EventTypes, el \in Els :
        \E target \in TargetsOf(innerHTML[el]), k \in (IF type = "keydown" THEN KeyNames ELSE {"-"}) :
            Dispatch(type, el, target, k, now)
    \/ \E i \in DOMAIN inst : NotificationTimeout(i)
    \/ PageStore(Receive(Page))
    \/ AddColor("B", Red, now) /\ UNCHANGED <<compVars, timeouts>>
    \/ PersistFire("B", "ok") /\ UNCHANGED <<compVars, timeouts>>

SpecPage == PageInit /\ [][PageNext]_vars

\* the definition a page script registers under the name "counter"
ClickDefinitions == {<<"counter", "toggle">>}

\* SpecClick: one page with the color-picker and the toggle component
ClickNext ==
    \/ \E p \in ClickDefinitions : DefineComponent(p[1], p[2])
    \/ \E name \in Names, el \in Els, cid \in Cids : CreateComponent(name, el, EmptyObject, cid)
    \/ \E i \in DOMAIN inst : Destroy(i)
    \/ \E type \in EventTypes, el \in Els :
        \E target \in TargetsOf(innerHTML[el]), k \in (IF type = "keydown" THEN KeyNames ELSE {"-"}) :
            Dispatch(type, el, target, k, now)
    \/ \E i \in DOMAIN inst : NotificationTimeout(i)

SpecClick == PageInit /\ [][ClickNext]_vars

\* SpecBus: a page with toggle components, where code that kept the closures c.on
\* returned calls them and binds the same handlers again
BusNext ==
    \/ \E p \in ClickDefinitions : DefineComponent(p[1], p[2])
    \/ \E el \in Els, cid \in Cids : CreateComponent("counter", el, EmptyObject, cid)
    \/ \E i \in DOMAIN inst : Destroy(i)
    \/ \E type \in EventTypes, el \in Els :
        \E target \in TargetsOf(innerHTML[el]), k \in (IF type = "keydown" THEN KeyNames ELSE {"-"}) :
            Dispatch(type, el, target, k, now)
    \/ \E i \in DOMAIN inst : \E j \in DOMAIN inst[i].cleanupFns : Unsub(i, j)
    \/ \E i \in DOMAIN inst : \E j \in DOMAIN inst[i].cleanupFns : On(i, j)

SpecBus == PageInit /\ [][BusNext]_vars

\* a page script registers a definition whose mounted hook throws
HookDefinitions == {<<"counter", "faulty">>}

\* SpecHook: the page of SpecClick with that definition.  Nobody holds the api object
\* of a createComponent call that threw, so destroy is called on returned instances
HookNext ==
    \/ \E p \in HookDefinitions : DefineComponent(p[1], p[2])
    \/ \E name \in Names, el \in Els, cid \in Cids : CreateComponent(name, el, EmptyObject, cid)
    \/ \E i \in DOMAIN inst : ~Def(inst[i].def).throws /\ Destroy(i)
    \/ \E type \in EventTypes, el \in Els :
        \E target \in TargetsOf(innerHTML[el]), k \in (IF type = "keydown" THEN KeyNames ELSE {"-"}) :
            Dispatch(type, el, target, k, now)
    \/ \E i \in DOMAIN inst : NotificationTimeout(i)

SpecHook == PageInit /\ [][HookNext]_vars

\* the definition a page script registers for the data-component element
TreeDefinitions == {<<"counter", "counter">>}

\* SpecTree: a page with the color-picker block and one data-component element
TreeInit ==
    /\ StoreInit
    /\ registry = [n \in Names |-> IF n = "color-picker" THEN "picker" ELSE "none"]
    /\ componentInstances = [e \in TreeEls |-> 0]
    /\ inst = <<>>
    /\ dataset = [e \in TreeEls |-> "none"]
    /\ innerHTML = [e \in TreeEls |-> NoMarkup]
    /\ handlers = <<>>
    /\ bound = FALSE
    /\ listeners = [t \in Tabs |-> <<Badge>>]
    /\ closures = [t \in Tabs |-> {Badge}]

TreeNext ==
    \/ \E p \in TreeDefinitions : DefineComponent(p[1], p[2])
    \/ \E cid \in Cids : Decorate(cid)
    \/ \E cid \in Cids : InitComponents(cid)
    \/ DestroyComponents
    \/ \E i \in DOMAIN inst : \E u \in UpdatesFor(inst[i].def) : SetState(i, u)

SpecTree == TreeInit /\ [][TreeNext]_vars

(***************************************************************************)
(* Properties of the store                                                 *)
(***************************************************************************)
\* the calls that reach Store.update
UpdateNames == {"addColor", "removeColor", "clear", "reorder"}
\* the call of this step went through Store.update (it was not refused and did not throw)
Updated == op'.name \in UpdateNames /\ ret'.v \in {"success", "void"}
\* the handlers a call invoked, in order
Notified(lg) == [i \in DOMAIN SelectSeq(lg, LAMBDA e : e.ev = "notify") |-> SelectSeq(lg, LAMBDA e : e.ev = "notify")[i].h]
\* some entry of tab t's collection is a color with this hex
HoldsHex(t, hex) == \E i \in DOMAIN state[t].colors : IsColor(state[t].colors[i]) /\ state[t].colors[i].hex = hex
\* an undefined / null entry precedes the first entry with this hex
HoleBefore(t, hex) ==
    \E i \in DOMAIN state[t].colors :
        /\ ~IsColor(state[t].colors[i])
        /\ \A j \in 1..(i - 1) : state[t].colors[j].hex # hex

\* C1: in every reachable state the collection of every tab holds at most
\* maxColors entries
C1_AtMostMaxColors == \A t \in Tabs : Len(state[t].colors) <= state[t].maxColors

\* C2: in every reachable state no two color entries of a tab's collection have the
\* same hex value
C2_UniqueHex ==
    \A t \in Tabs : \A i, j \in DOMAIN state[t].colors :
        (i < j /\ IsColor(state[t].colors[i]) /\ IsColor(state[t].colors[j]))
            => state[t].colors[i].hex # state[t].colors[j].hex

\* a tab holds two colors it received in a cross-tab message
C2_Witness ==
    /\ op.name = "onmessage"
    /\ Len(state[op.tab].colors) = 2
    /\ \A i \in DOMAIN state[op.tab].colors : IsColor(state[op.tab].colors[i])

\* C3: addColor on a collection that holds maxColors entries (or more) returns
\* {success:false, reason:'full'} and changes nothing: state, listeners, timer,
\* storage and channel are as before and no listener was invoked
C3_FullHasNoEffect ==
    [][\A t \in Tabs :
        (op'.name = "addColor" /\ op'.tab = t /\ Len(state[t].colors) >= state[t].maxColors)
            => /\ ret'.v = "full"
               /\ log' = <<>>
               /\ UNCHANGED <<state, listeners, timer, inbox, storage>>]_vars

\* a color whose hex is not in the collection was refused at capacity
C3_Witness ==
    /\ op.name = "addColor"
    /\ ret.v = "full"
    /\ Len(state[op.tab].colors) = state[op.tab].maxColors
    /\ ~HoldsHex(op.tab, op.arg)

C8_UpdateOrder ==
    [][/\ Updated =>
            /\ log' = <<Ev("set", NoHandler, state'[op'.tab])>>
                        \o [i \in DOMAIN listeners[op'.tab] |-> Ev("notify", listeners[op'.tab][i], state'[op'.tab])]
                        \o <<Ev("schedule", NoHandler, state'[op'.tab])>>
            /\ timer'[op'.tab]
            /\ UNCHANGED <<storage, inbox>>
       /\ (storage' # storage \/ \E u \in Tabs : Len(inbox'[u]) > Len(inbox[u]))
            => /\ op'.name = "persist"
               /\ timer[op'.tab]
               /\ log' = <<Ev("write", NoHandler, state[op'.tab]), Ev("post", NoHandler, state[op'.tab])>>]_vars

\* an update notified two listeners and armed the timer
C8_Witness ==
    /\ op.name = "addColor"
    /\ ret.v = "success"
    /\ Len(listeners[op.tab]) = 2
    /\ Len(log) = 4
    /\ timer[op.tab]

\* C9: processing a cross-tab message replaces the state by the payload and invokes
\* every current listener with it; it writes no storage, posts no message and
\* schedules no persist
C9_MessageDoesNotPersist ==
    [][op'.name = "onmessage" =>
        /\ inbox[op'.tab] # <<>>
        /\ state'[op'.tab] = Head(inbox[op'.tab])
        /\ log' = <<Ev("set", NoHandler, Head(inbox[op'.tab]))>>
                    \o [i \in DOMAIN listeners[op'.tab] |-> Ev("notify", listeners[op'.tab][i], Head(inbox[op'.tab]))]
        /\ storage' = storage
        /\ timer' = timer
        /\ \A u \in Tabs : Len(inbox'[u]) <= Len(inbox[u])]_vars

\* a message was processed by a tab with two listeners and no pending persist
C9_Witness ==
    /\ op.name = "onmessage"
    /\ Len(listeners[op.tab]) = 2
    /\ ~timer[op.tab]
    /\ Len(log) = 3

\* C10: subscribe adds the handler and invokes it (and nothing else) exactly once with
\* the current state; the unsubscribe closure removes it; a handler enters the
\* listener set only through subscribe; and every other call invokes only handlers
\* that are in the listener set when the call starts
C10_SubscribeUnsubscribe ==
    [][/\ op'.name = "subscribe" =>
            /\ Len(log') = 1
            /\ log'[1] = Ev("notify", log'[1].h, state[op'.tab])
            /\ InSeq(log'[1].h, listeners'[op'.tab])
            /\ state' = state
       /\ op'.name = "unsubscribe" =>
            /\ Len(log') = 1
            /\ log'[1].ev = "delete"
            /\ ~InSeq(log'[1].h, listeners'[op'.tab])
       /\ op'.name # "subscribe" =>
            /\ \A i \in DOMAIN Notified(log') : InSeq(Notified(log')[i], listeners[op'.tab])
            /\ \A t \in Tabs : \A i \in DOMAIN listeners'[t] : InSeq(listeners'[t][i], listeners[t])]_vars

\* an update invoked a remaining listener while another handler was unsubscribed
C10_Witness ==
    /\ op.name \in UpdateNames
    /\ ret.v \in {"success", "void"}
    /\ Len(Notified(log)) = 1
    /\ \E h \in closures[op.tab] : ~InSeq(h, listeners[op.tab])

\* C11: a persist callback never throws to its caller, whether the write, the
\* serialization or the broadcast fails; it invokes no listener and leaves state and
\* listeners alone, a failure is logged, and an update made after a failed persist
\* still replaces the state, notifies every listener and schedules the persist
C11_PersistFailureIsCaught ==
    [][/\ op'.name = "persist" =>
            /\ ret'.v = "void"
            /\ state' = state
            /\ listeners' = listeners
            /\ Notified(log') = <<>>
            /\ log'[Len(log')].ev \in {"post", "warn"}
            /\ log'[Len(log')].ev = "warn" => inbox' = inbox
       /\ Updated =>
            /\ log' = <<Ev("set", NoHandler, state'[op'.tab])>>
                        \o [i \in DOMAIN listeners[op'.tab] |-> Ev("notify", listeners[op'.tab][i], state'[op'.tab])]
                        \o <<Ev("schedule", NoHandler, state'[op'.tab])>>]_vars

\* the write of a saved color failed: nothing is stored, the tab still holds the color
C11_Witness ==
    /\ op.name = "persist"
    /\ log = <<Ev("warn", NoHandler, state[op.tab])>>
    /\ storage = NoEntry
    /\ io = [writes |-> 0, posts |-> 0]
    /\ state[op.tab].colors # <<>>

\* C12: construction hydrates the state as defaultState overridden by every top-level
\* key of the stored value, and as defaultState when nothing is stored or the entry
\* does not parse; a state written by persist is recovered unchanged by the next
\* construction over that storage
C12_HydrateRecoversState ==
    [][op'.name = "construct" =>
        /\ DOMAIN state'[op'.tab] = DOMAIN DefaultState \cup (IF storage.kind = "json" THEN DOMAIN storage.val ELSE {})
        /\ \A k \in DOMAIN state'[op'.tab] :
                state'[op'.tab][k] = IF storage.kind = "json" /\ k \in DOMAIN storage.val
                                     THEN storage.val[k] ELSE DefaultState[k]
        /\ (op.name = "persist" /\ Len(log) = 2) => state'[op'.tab] = state[op.tab]]_vars

\* the sequence without its k-th element
RemoveAt(s, k) == SubSeq(s, 1, k - 1) \o SubSeq(s, k + 1, Len(s))

\* C16: for indices within range, every reorder(fromIndex, toIndex) call yields a
\* collection of the same length in which the entry formerly at fromIndex is at
\* toIndex and the other entries are the same entries in the same relative order
C16_ReorderMovesOneEntry ==
    [][\A t \in Tabs : \A i, j \in 0..(MaxLen - 1) :
        (i < Len(state[t].colors) /\ j < Len(state[t].colors) /\ Reorder(t, i, j))
            => /\ Len(state'[t].colors) = Len(state[t].colors)
               /\ state'[t].colors[j + 1] = state[t].colors[i + 1]
               /\ RemoveAt(state'[t].colors, j + 1) = RemoveAt(state[t].colors, i + 1)]_vars

\* reorder on [Red, Green, Blue] as first call left [Green, Blue, Red]
C16_Witness ==
    /\ op.name = "reorder"
    /\ calls = 1
    /\ state[op.tab].colors = <<Saved[2], Saved[3], Saved[1]>>

(***************************************************************************)
(* Properties of the component factory                                     *)
(***************************************************************************)
\* the events of one kind in a call's effects, in order
Only(lg, e) == SelectSeq(lg, LAMBDA x : x.ev = e)
\* nothing of the factory, the event bus or the store's listeners changed
CompUnchanged == UNCHANGED <<registry, componentInstances, inst, dataset, innerHTML, handlers, bound, listeners, closures>>

\* C5 as stated: createComponent(name, el) on an element with a live instance returns
\* that instance, runs no hook and changes nothing, whatever the name
C5_AlwaysReturnsInstance ==
    [][(op'.name = "createComponent" /\ componentInstances[op'.el] # 0)
        => /\ ret' = RetInst(componentInstances[op'.el])
           /\ log' = <<>>
           /\ CompUnchanged]_vars

\* C5 amended: createComponent(name, el) with a registered name on an element with a
\* live instance returns that instance, runs no hook and changes nothing (scope id,
\* state, markup, handlers); with an unregistered name it throws "not defined",
\* also without any effect
C5_ReturnsLiveInstance ==
    [][(op'.name = "createComponent" /\ componentInstances[op'.el] # 0)
        => /\ ret' = IF registry[op'.arg] # "none" THEN RetInst(componentInstances[op'.el])
                     ELSE Ret("Error: not defined")
           /\ log' = <<>>
           /\ CompUnchanged]_vars

\* a second createComponent returned the element's live instance without running a hook
C5_Witness ==
    /\ op.name = "createComponent"
    /\ ret.v = "instance"
    /\ ret.inst = componentInstances[op.el]
    /\ log = <<>>

\* C6: every setState call on an instance whose definition has a render hook calls
\* that hook exactly once, after the merge, whatever the argument (partial, updater
\* function, empty partial), and assigns its markup to the element
C6_SetStateRendersOnce ==
    [][(op'.name = "setState" /\ Def(inst[op'.inst].def).render)
        => /\ Len(Only(log', "render")) = 1
           /\ Only(log', "render")[1].arg = inst'[op'.inst].state
           /\ log'[Len(log')].ev = "render"
           /\ innerHTML'[op'.el].state = inst'[op'.inst].state]_vars

\* setState with an empty partial rendered once
C6_Witness ==
    /\ op.name = "setState"
    /\ op.arg = "empty"
    /\ Len(Only(log, "render")) = 1

\* C7: destroy runs every function of the cleanup list exactly once in registration
\* order, empties the list and removes the element's instance; a destroy that
\* directly follows a destroy of the same instance runs no cleanup function and
\* finds no registered instance
C7_DestroyRunsCleanupsOnce ==
    [][op'.name = "destroy"
        => /\ [j \in DOMAIN Only(log', "cleanup") |-> Only(log', "cleanup")[j].arg] = inst[op'.inst].cleanupFns
           /\ inst'[op'.inst].cleanupFns = <<>>
           /\ componentInstances'[op'.el] = 0
           /\ (op.name = "destroy" /\ op.inst = op'.inst)
                => /\ Only(log', "cleanup") = <<>>
                   /\ Only(log', "unregister")[1].arg.had = FALSE]_vars

\* a color-picker instance, whose four cleanup functions ran in its first destroy,
\* was destroyed again: nothing ran and no instance was registered
C7_Witness ==
    /\ op.name = "destroy"
    /\ inst[op.inst].def = "picker"
    /\ Only(log, "cleanup") = <<>>
    /\ Only(log, "unregister")[1].arg.had = FALSE

\* the position of the first event of a kind in a call's effects (0: none)
First(lg, e) == IF \E j \in DOMAIN lg : lg[j].ev = e
                THEN CHOOSE j \in DOMAIN lg : lg[j].ev = e /\ \A k \in 1..(j - 1) : lg[k].ev # e
                ELSE 0

\* C13: createComponent with a name that has no registered definition throws
\* "not defined" and has no other effect: no scope id is stamped, no hook runs, no
\* instance is created or registered, no handler is bound
C13_UndefinedNameHasNoEffect ==
    [][(op'.name = "createComponent" /\ registry[op'.arg] = "none")
        => /\ ret' = Ret("Error: not defined")
           /\ log' = <<>>
           /\ CompUnchanged]_vars

\* an unregistered name was refused on an element without instance or scope id
C13_Witness ==
    /\ op.name = "createComponent"
    /\ ret.v = "Error: not defined"
    /\ componentInstances[op.el] = 0
    /\ dataset[op.el] = "none"

\* C14 as stated: setState merges, then calls onStateChange with the previous state
\* as first and the next state as second argument, then renders
C14_PrevStateFirst ==
    [][(op'.name = "setState" /\ Def(inst[op'.inst].def).onStateChange)
        => /\ log'[1].ev = "onStateChange"
           /\ log'[1].arg.a1 = inst[op'.inst].state
           /\ log'[1].arg.a2 = inst'[op'.inst].state
           /\ First(log', "render") > 1]_vars

\* C14 amended: setState merges, then calls onStateChange with the instance API as
\* first, the next state as second and the previous state as third argument, and
\* renders only after that hook has returned
C14_ApiNextPrev ==
    [][(op'.name = "setState" /\ Def(inst[op'.inst].def).onStateChange)
        => /\ DOMAIN inst'[op'.inst].state = DOMAIN inst[op'.inst].state
           /\ log' = <<CEv("onStateChange", op'.inst,
                            [a1 |-> Api(op'.inst), a2 |-> inst'[op'.inst].state, a3 |-> inst[op'.inst].state]),
                        CEv("render", op'.inst, inst'[op'.inst].state)>>]_vars

\* onStateChange saw a next state that differs from the previous one
C14_Witness ==
    /\ op.name = "setState"
    /\ log # <<>>
    /\ log[1].ev = "onStateChange"
    /\ log[1].arg.a2 # log[1].arg.a3
    /\ log[1].arg.a2 = inst[op.inst].state

\* C18: a createComponent call that creates an instance runs setup (if defined)
\* first, then the first render, then mounted, and registers the instance last; no
\* render precedes setup and mounted does not precede the first render
C18_LifecycleOrder ==
    [][(op'.name = "createComponent" /\ Len(inst') > Len(inst))
        => LET d == Def(inst'[Len(inst')].def)
               su == First(log', "setup")
               re == First(log', "render")
               mo == First(log', "mounted")
           IN  /\ d.setup <=> su = 1
               /\ d.render <=> re = su + 1
               /\ d.mounted <=> mo = re + 1
               /\ log'[Len(log')].ev = "register"
               /\ First(log', "register") = Len(log')
               /\ componentInstances[op'.el] = 0
               /\ componentInstances'[op'.el] = Len(inst')]_vars

\* a color-picker was created: setup, render, mounted and the registration all ran
C18_Witness ==
    /\ op.name = "createComponent"
    /\ Len(log) >= 4
    /\ log[1].ev = "setup" /\ log[2].ev = "render" /\ log[3].ev = "mounted"
    /\ log[Len(log)].ev = "register"

(***************************************************************************)
(* Properties of the utilities                                             *)
(***************************************************************************)
\* the entity of a reserved character, the character itself otherwise
Entity(c) ==
    CASE c = "&" -> Amp
      [] c = "<" -> Lt
      [] c = ">" -> Gt
      [] c = "\"" -> Quot
      [] c = "'" -> Apos
      [] OTHER -> <<c>>
\* every character of s replaced by its entity, once
RECURSIVE Escaped(_)
Escaped(s) == IF s = <<>> THEN <<>> ELSE Entity(Head(s)) \o Escaped(Tail(s))

\* C17: for every string esc returns the string with each & < > " ' replaced by
\* &amp; &lt; &gt; &quot; &#39;, each input character escaped exactly once; the
\* result holds no raw < > " '; esc of escaped text escapes the ampersands of its
\* entities again; null and undefined give the empty string
C17_EscReplacesEachCharacterOnce ==
    op.name \in {"esc", "esc2"} =>
        /\ op.arg.kind \in {"null", "undefined"} => ret.v = <<>>
        /\ op.arg.kind \in {"string", "number"} =>
              /\ ret.v = Escaped(op.arg.chars)
              /\ \A i \in DOMAIN ret.v : ret.v[i] \notin {"<", ">", "\"", "'"}
              /\ Len(SelectSeq(ret.v, LAMBDA c : c = "&"))
                    = Len(SelectSeq(op.arg.chars, LAMBDA c : c \in {"&", "<", ">", "\"", "'"}))
        /\ (op.name = "esc2" /\ op.arg.chars = Lt) => ret.v = <<"&", "a", "m", "p", ";", "l", "t", ";">>

\* esc(esc("<")) is "&amp;lt;"
C17_Witness ==
    /\ op.name = "esc2"
    /\ op.arg = JsString(Lt)
    /\ ret.v = Amp \o <<"l", "t", ";">>

\* the debounced function a call of this step invoked ("-": none)
Invoked ==
    IF op'.name = "debounced" THEN "fn"
    ELSE IF Updated THEN op'.tab
    ELSE "-"
\* the debounced function whose timeout callback this step ran ("-": none)
Fired ==
    IF op'.name = "timeout" THEN "fn"
    ELSE IF op'.name = "persist" THEN op'.tab
    ELSE "-"
\* this step is a call or a callback (the clock does not only advance)
IsCall == <<op, ret, log>>' # <<op, ret, log>> \/ now' = now

\* C20: an invocation of a debounced function never calls the wrapped function
\* itself: it replaces the pending timeout by one due a window later that carries
\* its arguments.  The wrapped function is called only by a timeout callback, not
\* before the window after the last invocation has elapsed, exactly once and with the
\* arguments of the last invocation, and no timeout is left pending; for the store
\* that call makes one storage write and one broadcast of the current state.  Every
\* pending timeout is eventually run or replaced
C20_DebounceCollapsesBurst ==
    /\ [][IsCall =>
            /\ Invoked # "-" =>
                  /\ timeouts'[Invoked] = [due |-> now' + Window,
                                           args |-> IF Invoked = "fn" THEN op'.arg ELSE "-"]
                  /\ \A i \in DOMAIN log' : log'[i].ev \notin {"call", "write", "post"}
                  /\ UNCHANGED <<storage, inbox>>
            /\ Fired # "-" =>
                  /\ timeouts[Fired] # NoTimeout
                  /\ now >= timeouts[Fired].due
                  /\ timeouts'[Fired] = NoTimeout
                  /\ log' = IF Fired = "fn" THEN <<Ev("call", NoHandler, timeouts[Fired].args)>>
                             ELSE <<Ev("write", NoHandler, state[Fired]), Ev("post", NoHandler, state[Fired])>>
            /\ \A d \in Debounced : (d # Invoked /\ d # Fired) => timeouts'[d] = timeouts[d]]_vars
    /\ \A d \in Debounced : (timeouts[d] # NoTimeout) ~> (timeouts[d] = NoTimeout)

\* an invocation arrived before the window of the previous one had elapsed and
\* replaced its timeout, which carried other arguments
C20_Witness ==
    /\ op.name = "debounced"
    /\ log[1].ev = "clearTimeout"
    /\ log[1].arg # NoTimeout
    /\ now < log[1].arg.due
    /\ log[1].arg.args # op.arg
    /\ timeouts["fn"] = [due |-> now + Window, args |-> op.arg]

(***************************************************************************)
(* Properties of event delegation                                          *)
(***************************************************************************)
\* instance i still holds an unsubscribe closure of the bus or of a store: it has
\* bound handlers and its destroy() has not run
HoldsBindings(i) == \E j \in DOMAIN inst[i].cleanupFns : inst[i].cleanupFns[j].kind \in {"bus", "store"}
\* the handlers of component instances a call invoked: bus handlers and store listeners
InvokedOf(lg) ==
    {lg[j].h : j \in {k \in DOMAIN lg : lg[k].ev \in {"handle", "notify"} /\ lg[k].h.inst # 0}}

\* C15: once destroy() of an instance has returned, no DOM event, store update or
\* cross-tab message invokes a handler that instance bound through on, onActivate
\* or subscribe: every handler a step invokes belongs to an instance whose
\* bindings destroy has not yet released
C15_NoHandlerAfterDestroy ==
    [][\A h \in InvokedOf(log') : h.inst \in DOMAIN inst /\ HoldsBindings(h.inst)]_vars

\* a click on a swatch of the second color-picker, after the first one was destroyed,
\* saves the color: the second picker's click handler and store listener run
C15_Witness ==
    /\ op.name = "dispatch"
    /\ Len(inst) = 2
    /\ inst[1].def = "picker" /\ inst[1].cleanupFns = <<>>
    /\ inst[2].def = "picker"
    /\ Handler("swatch-click", 2) \in InvokedOf(log)
    /\ PickerHandler(2) \in InvokedOf(log)

\* C19: in one dispatch, every handler the bus invokes gets a matched element that
\* is attached to the document at the moment of the call
C19_HandlersSeeAttachedTarget ==
    [][op'.name = "dispatch" =>
        \A j \in DOMAIN log' : log'[j].ev = "handle" => log'[j].arg.attached]_vars

(***************************************************************************)
(* Properties of cross-tab synchronisation                                 *)
(***************************************************************************)
\* no debounce timer is pending and no message is in flight
Quiescent == \A t \in Tabs : ~timer[t] /\ inbox[t] = <<>>

\* C22: cross-tab sync neither loops nor amplifies: the storage writes and the
\* broadcasts made so far, over all tabs, are each at most the update calls made so
\* far, and once the update calls have stopped the tabs reach quiescence for good
C22_NoAmplification ==
    /\ [](io.writes <= calls /\ io.posts <= calls)
    /\ <>[]Quiescent

\* both tabs have saved a color, every write and broadcast has been made and the
\* last message has just been delivered
C22_Witness ==
    /\ Quiescent
    /\ op.name = "onmessage"
    /\ calls >= 2
    /\ io.writes = calls
    /\ io.posts = calls

\* C23: once every debounce timer has fired and every message has been delivered
\* after some write, without a storage failure, all tabs hold the same state and
\* storage holds that state
C23_QuiescentTabsAgree ==
    (Quiescent /\ io.writes > 0) =>
        /\ \A t, u \in Tabs : state[t] = state[u]
        /\ \A t \in Tabs : storage = JSONStringify(state[t])

\* C24: a message that arrives while the tab's persist is pending does not make a
\* saved color disappear from the tab's collection (no tab removes or clears)
C24_SavedColorSurvivesMessage ==
    [][\A t \in Tabs, c \in Colors :
        (op'.name = "onmessage" /\ op'.tab = t /\ timer[t] /\ HoldsHex(t, c.hex))
            => HoldsHex(t, c.hex)']_vars

\* the number of entries of seq equal to x
CountOf(seq, x) == Cardinality({i \in DOMAIN seq : seq[i] = x})
\* b holds the entries of a, each as often, in some order
Permutation(a, b) ==
    /\ Len(a) = Len(b)
    /\ \A i \in DOMAIN a : CountOf(a, a[i]) = CountOf(b, a[i])

\* C28: for all integer arguments, reorder leaves the number of entries unchanged
\* and yields a permutation of the previous collection, without an undefined entry
C28_ReorderPermutes ==
    [][\A t \in Tabs :
        (op'.name = "reorder" /\ op'.tab = t /\ ret'.v = "void")
            => /\ Permutation(state[t].colors, state'[t].colors)
               /\ \A i \in DOMAIN state'[t].colors :
                    IsColor(state'[t].colors[i]) \/ state'[t].colors[i] \in {state[t].colors[j] : j \in DOMAIN state[t].colors}]_vars

\* C29: in every reachable state the color entries of a tab's collection have
\* pairwise distinct ids
C29_DistinctIds ==
    \A t \in Tabs : \A i, j \in DOMAIN state[t].colors :
        (i < j /\ IsColor(state[t].colors[i]) /\ IsColor(state[t].colors[j]))
            => state[t].colors[i].id # state[t].colors[j].id

\* the last call was a Store.update of tab t
JustUpdated(t) == op.name \in UpdateNames /\ op.tab = t /\ ret.v \in {"success", "void"}
\* the last call was the delivery of a message to tab t
JustReceived(t) == op.name = "onmessage" /\ op.tab = t
\* the debounced persist of tab t has fired and storage holds the tab's state
Written(t) == timeouts[t] = NoTimeout /\ ~timer[t] /\ storage = JSONStringify(state[t])

\* C30: after an update call of a store, if no cross-tab message arrives at it any
\* more and writes do not fail, the debounced persist eventually fires and from
\* then on storage holds the store's final state (the timer being fair)
C30_FinalStateIsWritten ==
    \A t \in Tabs : [](JustUpdated(t) => (<>JustReceived(t) \/ <>[]Written(t)))

\* tab A's persist has just written a collection that holds a color, after two
\* update calls
C30_Witness ==
    /\ op.name = "persist" /\ op.tab = "A"
    /\ calls >= 2
    /\ state["A"].colors # <<>>
    /\ Written("A")

\* the keys of events.handlers
KeysOf(hs) == {hs[j].key : j \in DOMAIN hs}
\* the handlers registered under a key, in insertion order
HandlersOf(hs, key) ==
    IF key \in KeysOf(hs) THEN hs[CHOOSE j \in DOMAIN hs : hs[j].key = key].hs ELSE <<>>
\* the handlers of the bus a call invoked, in order
Handled(lg) ==
    [j \in DOMAIN SelectSeq(lg, LAMBDA e : e.ev = "handle") |-> SelectSeq(lg, LAMBDA e : e.ev = "handle")[j].h]

\* C21: calling the closure events.on returned removes exactly its handler from the
\* set of its key; a handler enters a set only by a registration; every dispatch
\* invokes exactly the handlers now registered under the key the event matches, so
\* the removed handler is not invoked until it is registered again while the others
\* of the key keep firing; and no key ever leaves the handler map
C21_UnsubscribeRemovesOneHandler ==
    /\ [][\A i \in DOMAIN inst : \A j \in DOMAIN inst[i].cleanupFns :
            Unsub(i, j) =>
                /\ Len(handlers') = Len(handlers)
                /\ \A k \in DOMAIN handlers :
                    /\ handlers'[k].key = handlers[k].key
                    /\ handlers'[k].hs = IF handlers[k].key = inst[i].cleanupFns[j].key
                                         THEN SetDelete(handlers[k].hs, inst[i].cleanupFns[j].h)
                                         ELSE handlers[k].hs]_vars
    /\ [][\A key \in KeysOf(handlers') :
            (\E h \in {HandlersOf(handlers', key)[j] : j \in DOMAIN HandlersOf(handlers', key)} :
                ~InSeq(h, HandlersOf(handlers, key)))
            => op'.name \in {"on", "createComponent"}]_vars
    /\ [][\A type \in EventTypes, el \in Els : \A target \in TargetsOf(innerHTML[el]), k \in KeyNames \cup {"-"} :
            Dispatch(type, el, target, k, now) =>
                Handled(log') = HandlersOf(handlers, Key(type, dataset[el], target.cls))]_vars
    /\ [][KeysOf(handlers) \subseteq KeysOf(handlers')]_vars

\* after the closure of the toggle's first click handler was called, a click on the
\* button invokes the second handler only, and the key is still in the map
C21_Witness ==
    /\ op.name = "dispatch"
    /\ Handled(log) = <<Handler("report", 1)>>
    /\ HandlersOf(handlers, Key("click", dataset["e1"], ".btn")) = <<Handler("report", 1)>>

(***************************************************************************)
(* Properties of destroyed instances and of the scope marker               *)
(***************************************************************************)
\* destroy() of instance i has returned: the bindings its mounted hook made are released
Destroyed(i) == MountedCleanups(inst[i].def, i, "-") # <<>> /\ ~HoldsBindings(i)

\* C25: after destroy() of an instance has returned, no setState, setProps or render
\* on it, a timer callback scheduled before the destroy included, invokes the
\* render hook or changes the element's markup
C25_NoRenderAfterDestroy ==
    [][\A i \in DOMAIN inst :
        (Destroyed(i) /\ op'.name \in {"setState", "setProps", "timeout"} /\ op'.inst = i)
            => /\ innerHTML' = innerHTML
               /\ \A j \in DOMAIN log' : log'[j].ev # "render"]_vars

\* a handler or a listener bound by instance i is registered
Registered(i) ==
    \/ \E j \in DOMAIN handlers : \E k \in DOMAIN handlers[j].hs : handlers[j].hs[k].inst = i
    \/ \E j \in DOMAIN listeners[Page] : listeners[Page][j].inst = i

\* C26: between the calls, an element carries data-cid if and only if it has a
\* registered instance, also after a createComponent call in which a hook threw,
\* and no handler or store subscription of such a call remains registered
C26_MarkerIffRegistered ==
    /\ \A el \in Els : (dataset[el] # "none") <=> (componentInstances[el] # 0)
    /\ \A i \in DOMAIN inst : Def(inst[i].def).throws => ~Registered(i)

\* C27: after destroyComponents(root) has returned, no element of root's subtree has
\* a live component instance, however the instance was created
C27_DestroyComponentsLeavesNone ==
    [][DestroyComponents => \A el \in TreeEls : componentInstances'[el] = 0]_vars

====
